---- MODULE Spec2Model ----
(***************************************************************************)
(* A model of the bytecode virtual machine of ci-bytecode-vm (src/vm.rs,   *)
(* src/value.rs, src/chunk.rs) running chunks as src/compiler.rs emits     *)
(* them.  Code is kept as bytes and ip is a byte offset, as in the source. *)
(*                                                                         *)
(* Left out: the wrap or panic of i64 arithmetic (the programs stay far    *)
(* from 2^63), the rounding of f64, what runtime_error and the             *)
(* disassembler write (out holds the lines of Print only), and the         *)
(* scanner.  Under Spec the programs are the chunks compiler.rs emits;     *)
(* under CompileSpec the parser is followed over the tokens of a source.   *)
(* A usize subtraction that underflows panics or wraps with the build      *)
(* profile, so overflowChecks is chosen freely in Init.                    *)
(***************************************************************************)
EXTENDS Integers, Sequences, FiniteSets, TLC

VARIABLES
    globals,        \* VM.globals: name -> Value
    frames,         \* VM.frames: sequence of CallFrame {closure, ip, slots}
    stack,          \* VM.stack (the VM-level vector; operands live in frame.slots)
    closures,       \* heap of Closure objects {function, up_values}
    cells,          \* heap of UpValueObject {location, closed}
    classes,        \* heap of Class objects {name, methods}
    instances,      \* heap of Instance objects {class, fields}
    bounds,         \* heap of BoundMethod objects {receiver, method}
    functions,      \* heap of compiled Functions: per interpret, name -> Function
    out,            \* lines written to standard output by Print
    result,         \* "Idle" | "Running" | "Ok" | "RuntimeError" | "Panic" | "Exit"
                    \* | "CompileError" | "Blocked" (interpret never returns)
                    \* | "Compiling" | "Compiled"
    prog,           \* index of the program given to the running/last interpret
    runs,           \* number of interpret calls made on this VM
    steps,          \* instructions dispatched by the running/last interpret
    overflowChecks, \* build profile: TRUE = integer overflow panics, FALSE = wraps
    hcall,          \* history: per frame, the callee and the caller's operands below it
    source,         \* token types of the source last compiled token by token
    stderr,         \* messages error_at wrote during that compile
    compiled,       \* what each end_compiler of that compile returned, in order
    compiler        \* the Compiler of a compile followed statement by statement

vars == <<globals, frames, stack, closures, cells, classes, instances, bounds,
          functions, out, result, prog, runs, steps, overflowChecks, hcall,
          source, stderr, compiled, compiler>>

(***************************************************************************)
(* Bounds of the model.                                                    *)
(***************************************************************************)
\* vm.rs: pub const FRAMES_MAX: usize = 64
FRAMES_MAX == 64

MaxInterprets == 2
MaxSteps == 150
SqrtScale == 1000

(***************************************************************************)
(* Small helpers.                                                          *)
(***************************************************************************)
Abs(x) == IF x < 0 THEN -x ELSE x

Min(a, b) == IF a < b THEN a ELSE b

RECURSIVE GCD(_, _)
GCD(a, b) == IF b = 0 THEN a ELSE GCD(b, a % b)

Front(s) == SubSeq(s, 1, Len(s) - 1)

Last(s) == s[Len(s)]

\* Vec::truncate(n): keeps the first n elements, no effect when n >= len.
Truncate(s, n) == IF n >= Len(s) THEN s ELSE SubSeq(s, 1, n)

\* Vec::insert(i, v) with 0-based index i <= len.
InsertAt(s, i, v) == SubSeq(s, 1, i) \o <<v>> \o SubSeq(s, i + 1, Len(s))

\* HashMap::get / HashMap::insert on maps kept as functions over a set of names.
MapHas(m, k) == k \in DOMAIN m

MapPut(m, k, v) == [x \in (DOMAIN m) \cup {k} |-> IF x = k THEN v ELSE m[x]]

EmptyMap == [x \in {} |-> 0]

(***************************************************************************)
(* Values (value.rs).  A value is a record: t the variant, v / d an        *)
(* integer payload (Int: v; Bool: v = 1 for true; Float: the rational v/d, *)
(* d = 0 for inf and NaN; heap variants: v the object's index), s a string *)
(* payload (String, RunTimeError: the text; Function, NativeFunction: the  *)
(* name).                                                                  *)
(***************************************************************************)
Val(t, v, d, s) == [t |-> t, v |-> v, d |-> d, s |-> s]

Nil == Val("Nil", 0, 1, "")

IntV(i) == Val("Int", i, 1, "")

BoolV(b) == Val("Bool", IF b THEN 1 ELSE 0, 1, "")

StringV(s) == Val("String", 0, 1, s)

FloatV(n, d) ==
    IF d = 0 THEN Val("Float", IF n > 0 THEN 1 ELSE IF n < 0 THEN -1 ELSE 0, 0, "")
    ELSE LET sn == IF d < 0 THEN -n ELSE n
             sd == Abs(d)
             g  == GCD(Abs(sn), sd)
         IN  Val("Float", sn \div g, sd \div g, "")

\* A Function constant: program p, function name s.
FunctionV(p, name) == Val("Function", p, 1, name)

ClosureV(id) == Val("Closure", id, 1, "")

ClassV(id) == Val("Class", id, 1, "")

InstanceV(id) == Val("Instance", id, 1, "")

BoundMethodV(id) == Val("BoundMethod", id, 1, "")

NativeFunction(name) == Val("NativeFunction", 0, 1, name)

RunTimeError(msg) == Val("RunTimeError", 0, 1, msg)

IsNaN(x) == x.t = "Float" /\ x.d = 0 /\ x.v = 0

\* `as f64` of an Int.
AsFloat(x) == IF x.t = "Int" THEN FloatV(x.v, 1) ELSE x

IsNumber(x) == x.t \in {"Int", "Float"}

\* impl PartialEq for Value: only Float, Int, Bool, Nil, String and Function
\* compare equal; every other pair is unequal.
ValueEq(a, b) ==
    CASE a.t = "Float" /\ b.t = "Float" -> ~IsNaN(a) /\ ~IsNaN(b) /\ a.v = b.v /\ a.d = b.d
      [] a.t = "Int" /\ b.t = "Int" -> a.v = b.v
      [] a.t = "Bool" /\ b.t = "Bool" -> a.v = b.v
      [] a.t = "Nil" /\ b.t = "Nil" -> TRUE
      [] a.t = "String" /\ b.t = "String" -> a.s = b.s
      [] a.t = "Function" /\ b.t = "Function" -> a.s = b.s
      [] OTHER -> FALSE

\* Value::is_falsely
is_falsely(x) ==
    CASE x.t = "Nil" -> TRUE
      [] x.t = "Bool" -> x.v = 0
      [] x.t = "Int" -> x.v = 0
      [] x.t = "Float" -> x.d # 0 /\ x.v = 0
      [] OTHER -> FALSE

(***************************************************************************)
(* f64 arithmetic on the rational representation (rounding is not          *)
(* modelled; division by zero gives inf or NaN as IEEE-754 does).          *)
(***************************************************************************)
FNeg(a) == Val("Float", -a.v, a.d, "")

FAdd(a, b) ==
    IF a.d = 0 /\ b.d = 0
    THEN (IF a.v = b.v THEN a ELSE FloatV(0, 0))
    ELSE FloatV(a.v * b.d + b.v * a.d, a.d * b.d)

FMul(a, b) == FloatV(a.v * b.v, a.d * b.d)

FRecip(a) ==
    IF a.v = 0 THEN (IF a.d = 0 THEN FloatV(0, 0) ELSE FloatV(1, 0))
    ELSE IF a.v > 0 THEN FloatV(a.d, a.v) ELSE FloatV(-a.d, -a.v)

FDiv(a, b) == FMul(a, FRecip(b))

FLess(a, b) ==
    IF IsNaN(a) \/ IsNaN(b) THEN FALSE
    ELSE IF a.d = 0 /\ b.d = 0 THEN a.v < b.v
    ELSE IF a.d = 0 THEN a.v < 0
    ELSE IF b.d = 0 THEN b.v > 0
    ELSE a.v * b.d < b.v * a.d

\* i64 division truncates toward zero.
IDiv(a, b) ==
    LET q == Abs(a) \div Abs(b)
    IN  IF (a < 0) = (b < 0) THEN q ELSE -q

\* f64::sqrt, rounded down to a multiple of 1/SqrtScale.
FSqrt(a) ==
    IF IsNaN(a) \/ a.v < 0 THEN FloatV(0, 0)
    ELSE IF a.d = 0 THEN a
    ELSE LET x == (a.v * SqrtScale * SqrtScale) \div a.d
             r == CHOOSE k \in 0..(x + 1) : k * k <= x /\ (k + 1) * (k + 1) > x
         IN  FloatV(r, SqrtScale)

(***************************************************************************)
(* impl Display for Value.  The heap is passed in for the names of         *)
(* closures, classes, instances and bound methods.                         *)
(***************************************************************************)
RECURSIVE Digits(_)
Digits(n) == IF n < 10 THEN ToString(n) ELSE Digits(n \div 10) \o ToString(n % 10)

IntStr(i) == IF i < 0 THEN "-" \o Digits(-i) ELSE Digits(i)

RECURSIVE FracStr(_, _, _)
\* the decimal digits of r/d (r < d), at most k of them
FracStr(r, d, k) ==
    IF r = 0 \/ k = 0 THEN ""
    ELSE ToString((r * 10) \div d) \o FracStr((r * 10) % d, d, k - 1)

FloatStr(x) ==
    IF x.d = 0 THEN (IF x.v > 0 THEN "inf" ELSE IF x.v < 0 THEN "-inf" ELSE "NaN")
    ELSE LET a == Abs(x.v)
             f == FracStr(a % x.d, x.d, 17)
         IN  (IF x.v < 0 THEN "-" ELSE "") \o Digits(a \div x.d) \o "."
                 \o (IF f = "" THEN "0" ELSE f)

Display(x, clo, cls, ins, bnd) ==
    CASE x.t = "Int" -> IntStr(x.v)
      [] x.t = "Float" -> FloatStr(x)
      [] x.t = "Bool" -> IF x.v = 1 THEN "true" ELSE "false"
      [] x.t = "Nil" -> "nil"
      [] x.t = "String" -> x.s
      [] x.t = "Function" -> "<fn " \o x.s \o ">"
      [] x.t = "Closure" -> "<fn " \o clo[x.v].function.s \o ">"
      [] x.t = "NativeFunction" -> "<native fn " \o x.s \o ">"
      [] x.t = "RunTimeError" -> x.s
      [] x.t = "Class" -> "<class " \o cls[x.v].name \o ">"
      [] x.t = "Instance" -> "<instance " \o cls[ins[x.v].class].name \o ">"
      [] x.t = "BoundMethod" -> "<bound method " \o clo[bnd[x.v].method.v].function.s \o ">"

(***************************************************************************)
(* OpCode (chunk.rs): the byte of an opcode is its position in this list.  *)
(***************************************************************************)
OpCodes ==
    << "Return", "Negate", "Add", "Subtract", "Multiply", "Divide", "Constant",
       "Nil", "True", "False", "Not", "Equal", "Greater", "Less", "Print", "Pop",
       "DefineGlobal", "GetGlobal", "SetGlobal", "GetLocal", "SetLocal",
       "JumpIfFalse", "Jump", "Loop", "Duplicate", "JumpIfTrue", "Call",
       "Closure", "GetUpvalue", "SetUpvalue", "CloseUpvalue" >>

\* The object opcodes vm.rs dispatches on; their bytes continue the list.
ObjectOpCodes == << "Class", "GetProperty", "SetProperty", "Method", "Invoke" >>

AllOpCodes == OpCodes \o ObjectOpCodes

\* impl From<OpCode> for u8
Op(name) == CHOOSE b \in 1..Len(AllOpCodes) : AllOpCodes[b] = name

\* impl From<u8> for OpCode ("Unknown" stands for the panic)
OpCodeFrom(byte) == IF byte \in 1..Len(AllOpCodes) THEN AllOpCodes[byte] ELSE "Unknown"

(***************************************************************************)
(* Chunks (chunk.rs) and the compiler's emission helpers (compiler.rs).    *)
(* A Function is {name, arity, up_value_count, chunk {code, constants}};   *)
(* code offsets and constant indices are 0-based as in the source, so      *)
(* byte i of a chunk is code[i + 1].                                       *)
(***************************************************************************)
RECURSIVE Flatten(_)
Flatten(ss) == IF ss = <<>> THEN <<>> ELSE ss[1] \o Flatten(Tail(ss))

\* emit_byte / emit_bytes: an instruction with its one-byte operands
I1(op) == <<Op(op)>>

I2(op, a) == <<Op(op), a>>

I3(op, a, b) == <<Op(op), a, b>>

\* Compiler::emit_jump: opcode and two placeholder bytes; the offset it
\* returns is Len(code) - 2 of the result.
emit_jump(code, op) == code \o <<Op(op), 255, 255>>

\* patch_jump with a jump one byte too long
patch_jump_one_further(code, offset) ==
    [code EXCEPT ![offset + 1] = ((Len(code) - offset - 1) \div 256) % 256,
                 ![offset + 2] = (Len(code) - offset - 1) % 256]

\* Compiler::patch_jump
patch_jump(code, offset) ==
    LET jump == Len(code) - offset - 2
    IN  [code EXCEPT ![offset + 1] = (jump \div 256) % 256,
                     ![offset + 2] = jump % 256]

\* emit_loop that does not count the two bytes of its own operand
emit_loop_short(code, loop_start) ==
    code \o << Op("Loop"), ((Len(code) + 1 - loop_start) \div 256) % 256,
               (Len(code) + 1 - loop_start) % 256 >>

\* Compiler::emit_loop
emit_loop(code, loop_start) ==
    LET c1 == code \o <<Op("Loop")>>
        offset == Len(c1) - loop_start + 2
    IN  c1 \o <<(offset \div 256) % 256, offset % 256>>

\* Function constants of a chunk name a function of the same program.
FnConst(name) == Val("Function", 0, 1, name)

Fn(arity, up_value_count, code, constants) ==
    [arity |-> arity, up_value_count |-> up_value_count, code |-> code,
     constants |-> constants]

(***************************************************************************)
(* The compiler: its record of the scanner state and the error state, the *)
(* chunk it writes, and the emitters.  The record also holds the constants *)
(* and the code of its chunk, the u8 local arg_count of argument_list, the *)
(* u8 that make_constant returned, and whether the thread has panicked.    *)
(***************************************************************************)
\* Compiler::new(FunctionType::Script, scanner): nothing scanned, no error yet.
\* events is the history of the calls of error_at, synchronize and
\* end_compiler, each with had_error as the call left it; advanced counts the
\* tokens that advance has moved past, and stalled tells that a loop of the
\* compiler has made a turn without moving past any.
NewCompiler(src) ==
    [toks |-> src, current |-> "None", previous |-> "None",
     had_error |-> FALSE, panic_mode |-> FALSE,
     lock |-> "free", blocked |-> FALSE,
     stderr |-> <<>>, compiled |-> <<>>, events |-> <<>>,
     advanced |-> 0, stalled |-> FALSE]

\* self.scanner_state.read(): blocks for ever under this thread's write guard
scanner_state_read(c) ==
    IF c.lock = "write" THEN [c EXCEPT !.blocked = TRUE] ELSE c

\* error_at without the write of had_error
error_at_keeping_had_error(c, message) ==
    IF c.blocked THEN c
    ELSE IF c.panic_mode
    THEN [c EXCEPT !.events = Append(@, [op |-> "error_at", printed |-> FALSE,
                                         had_error |-> c.had_error])]
    ELSE [c EXCEPT !.panic_mode = TRUE, !.stderr = Append(@, message),
                   !.events = Append(@, [op |-> "error_at", printed |-> TRUE,
                                         had_error |-> c.had_error])]

\* error_at printing in panic mode as well
error_at_in_panic_mode(c, message) ==
    IF c.blocked THEN c
    ELSE [c EXCEPT !.had_error = TRUE, !.panic_mode = TRUE,
                   !.stderr = Append(@, message),
                   !.events = Append(@, [op |-> "error_at", printed |-> TRUE,
                                         had_error |-> TRUE])]

\* error_at: nothing in panic mode; else had_error, panic_mode and the message
\* on standard error
error_at(c, message) ==
    IF c.blocked THEN c
    ELSE IF c.panic_mode
    THEN [c EXCEPT !.events = Append(@, [op |-> "error_at", printed |-> FALSE,
                                         had_error |-> c.had_error])]
    ELSE [c EXCEPT !.had_error = TRUE, !.panic_mode = TRUE,
                   !.stderr = Append(@, message),
                   !.events = Append(@, [op |-> "error_at", printed |-> TRUE,
                                         had_error |-> TRUE])]

error_at_current(c, message) == error_at(scanner_state_read(c), message)

error(c, message) == error_at(scanner_state_read(c), message)

\* end_compiler: the Function, or nothing once an error has been reported
end_compiler(c) ==
    IF c.blocked THEN c
    ELSE [c EXCEPT !.compiled =
                        Append(@, IF ~c.had_error THEN "Some" ELSE "None"),
                   !.events = Append(@, [op |-> "end_compiler",
                                         printed |-> FALSE,
                                         had_error |-> c.had_error])]

U8_MAX == 255

\* Compiler::new with its chunk
NewChunkCompiler(src) ==
    [constants |-> <<>>, code |-> <<>>, arg_count |-> 0, constant |-> 0,
     panicked |-> FALSE,
     locals |-> << [name |-> "", depth |-> 0, is_captured |-> FALSE] >>,
     scope_depth |-> 0, local |-> 0,
     up_values |-> <<>>, up_value_count |-> 0, up_value |-> 0,
     has_enclosing |-> FALSE, closure |-> <<>>] @@ NewCompiler(src)

emit_byte(c, byte) ==
    IF c.panicked THEN c ELSE [c EXCEPT !.code = Append(@, byte)]

\* make_constant refusing the constant of index u8::MAX as well
make_constant_one_fewer(c, value) ==
    IF c.panicked THEN c
    ELSE IF Len(c.constants) >= U8_MAX
    THEN [error([c EXCEPT !.constants = Append(@, value)],
                "Too many constants in one chunk.") EXCEPT !.constant = 0]
    ELSE [c EXCEPT !.constants = Append(@, value),
                   !.constant = Len(c.constants)]

\* Compiler::make_constant: write_constant pushes the value and returns its
\* index, Len(c.constants) before the push
make_constant(c, value) ==
    IF c.panicked THEN c
    ELSE IF Len(c.constants) > U8_MAX
    THEN [error([c EXCEPT !.constants = Append(@, value)],
                "Too many constants in one chunk.") EXCEPT !.constant = 0]
    ELSE [c EXCEPT !.constants = Append(@, value),
                   !.constant = Len(c.constants)]

\* emit_bytes(op, c.constant), c.constant being the u8 make_constant returned
emit_with_constant(c, op) == emit_byte(emit_byte(c, Op(op)), c.constant)

\* emit_constant
emit_constant(c, value) == emit_with_constant(make_constant(c, value), "Constant")

\* emit_bytes(op, arg)
emit_bytes(c, op, arg) == emit_byte(emit_byte(c, Op(op)), arg)

\* end_compiler with its emit_return
end_chunk_compiler(c) ==
    IF c.panicked THEN c
    ELSE end_compiler(emit_byte(emit_byte(c, Op("Nil")), Op("Return")))

(***************************************************************************)
(* The compiler of arithmetic expressions: parse_precedence with its       *)
(* precedence, over tokens that carry their lexeme.  The lexeme of a       *)
(* Number token is given as the integer that number() parses it to.        *)
(***************************************************************************)
Token(token_type, lexeme) == [token_type |-> token_type, lexeme |-> lexeme]

\* enum Precedence, in its order
Precedences ==
    << "None", "Assignment", "Or", "And", "Equality", "Comparison", "Term",
       "Factor", "Unary", "Call" >>

\* precedence <= other, the PartialOrd derived for the enum
PrecedenceLeq(precedence, other) ==
    \E i \in 1..Len(Precedences) : \E j \in i..Len(Precedences) :
        Precedences[i] = precedence /\ Precedences[j] = other

\* parser_rules.rs: RULES, for the token types of arithmetic expressions
operator_rule(token_type) ==
    CASE token_type = "Minus" ->
            [prefix |-> "unary", infix |-> "binary", precedence |-> "Term"]
      [] token_type = "Plus" ->
            [prefix |-> "none", infix |-> "binary", precedence |-> "Term"]
      [] token_type \in {"Slash", "Star"} ->
            [prefix |-> "none", infix |-> "binary", precedence |-> "Factor"]
      [] token_type = "Number" ->
            [prefix |-> "number", infix |-> "none", precedence |-> "None"]
      [] OTHER ->
            [prefix |-> "none", infix |-> "none", precedence |-> "None"]

\* Compiler::new for a source of tokens with lexemes: current is the first
\* token of tokens, previous is token
NewExpressionCompiler(tokens) ==
    [tokens |-> tokens, token |-> Token("None", 0)] @@ NewChunkCompiler(<<>>)

\* scanner_state.current
current_token(c) ==
    IF c.tokens = <<>> THEN Token("Eof", 0) ELSE Head(c.tokens)

\* advance over tokens with lexemes, none of them an Error token
advance_token(c) ==
    [c EXCEPT !.token = current_token(c),
              !.previous = current_token(c).token_type,
              !.tokens = IF @ = <<>> THEN <<>> ELSE Tail(@)]

\* consume over tokens with lexemes
consume_token(c, token_type, message) ==
    IF current_token(c).token_type = token_type THEN advance_token(c)
    ELSE error_at_current(c, message)

\* number: the constant of the lexeme
number(c) == emit_constant(c, IntV(c.token.lexeme))

\* the bytes binary emits for the operator after its right operand
binary_op_code(c, operator_type) ==
    CASE operator_type = "Plus" -> emit_byte(c, Op("Add"))
      [] operator_type = "Minus" -> emit_byte(c, Op("Subtract"))
      [] operator_type = "Star" -> emit_byte(c, Op("Multiply"))
      [] operator_type = "Slash" -> emit_byte(c, Op("Divide"))

RECURSIVE parse_precedence_of(_, _)
RECURSIVE infix_rules(_, _)

\* unary, entered after the '-'
unary(c) == emit_byte(parse_precedence_of(c, "Unary"), Op("Negate"))

\* binary, entered after the operator: the right operand is parsed at the
\* precedence of the operator's rule
binary(c) ==
    binary_op_code(
       parse_precedence_of(c, operator_rule(c.token.token_type).precedence),
       c.token.token_type)

\* the while loop of parse_precedence: an infix rule for each operator that
\* binds at least as tightly as precedence
infix_rules(c, precedence) ==
    IF PrecedenceLeq(precedence,
                     operator_rule(current_token(c).token_type).precedence)
    THEN infix_rules(binary(advance_token(c)), precedence)
    ELSE c

\* parse_precedence after its advance
prefix_rule_of(c, precedence) ==
    CASE operator_rule(c.token.token_type).prefix = "none" ->
            error(c, "Expect expression.")
      [] operator_rule(c.token.token_type).prefix = "number" ->
            infix_rules(number(c), precedence)
      [] operator_rule(c.token.token_type).prefix = "unary" ->
            infix_rules(unary(c), precedence)

parse_precedence_of(c, precedence) == prefix_rule_of(advance_token(c), precedence)

\* compile of print expression; : print_statement after the match of print,
\* then end_compiler
compile_print(tokens) ==
    end_chunk_compiler(
       emit_byte(
          consume_token(
             parse_precedence_of(advance_token(NewExpressionCompiler(tokens)),
                                 "Assignment"),
             "Semicolon", "Expect ';' after value."),
          Op("Print")))

(***************************************************************************)
(* The programs given to interpret, each as the functions the compiler     *)
(* produces for the source text quoted above it.                           *)
(***************************************************************************)

\* fun mk() { var x = 0; fun inc() { x = x + 1; return x; } return inc; }
\* var c = mk(); print c(); print c(); print c();
CounterProgram ==
    [name |-> "counter", n |-> 0, k |-> 0,
     fns |->
       ("script" :> Fn(0, 0,
            Flatten(<< I2("Closure", 1), I2("DefineGlobal", 0),
                       I2("GetGlobal", 3), I2("Call", 0), I2("DefineGlobal", 2),
                       I2("GetGlobal", 4), I2("Call", 0), I1("Print"),
                       I2("GetGlobal", 5), I2("Call", 0), I1("Print"),
                       I2("GetGlobal", 6), I2("Call", 0), I1("Print"),
                       I1("Nil"), I1("Return") >>),
            << StringV("mk"), FnConst("mk"), StringV("c"), StringV("mk"),
               StringV("c"), StringV("c"), StringV("c") >>))
       @@ ("mk" :> Fn(0, 0,
            Flatten(<< I2("Constant", 0), I2("Closure", 1), <<1, 1>>,
                       I2("GetLocal", 2), I1("Return"),
                       I1("Nil"), I1("Return") >>),
            << IntV(0), FnConst("inc") >>))
       @@ ("inc" :> Fn(0, 1,
            Flatten(<< I2("GetUpvalue", 0), I2("Constant", 0), I1("Add"),
                       I2("SetUpvalue", 0), I1("Pop"),
                       I2("GetUpvalue", 0), I1("Return"),
                       I1("Nil"), I1("Return") >>),
            << IntV(1) >>))]

\* fun f(p1, .., pn) { var l1 = 5; .. var lk = 5; return 7; }
\* print 100 + f(1, .., n);
CallProgram(n, k) ==
    [name |-> "call", n |-> n, k |-> k,
     fns |->
       ("script" :> Fn(0, 0,
            Flatten(<< I2("Closure", 1), I2("DefineGlobal", 0),
                       I2("Constant", 2), I2("GetGlobal", 3) >>)
              \o Flatten([i \in 1..n |-> I2("Constant", 3 + i)])
              \o Flatten(<< I2("Call", n), I1("Add"), I1("Print"),
                            I1("Nil"), I1("Return") >>),
            << StringV("f"), FnConst("f"), IntV(100), StringV("f") >>
              \o [i \in 1..n |-> IntV(i)]))
       @@ ("f" :> Fn(n, 0,
            Flatten([i \in 1..k |-> I2("Constant", i - 1)])
              \o Flatten(<< I2("Constant", k), I1("Return"),
                            I1("Nil"), I1("Return") >>),
            [i \in 1..k |-> IntV(5)] \o << IntV(7) >>))]

\* fun mk() { var x = 1; fun f() { return x; } x = 2; return f; }
\* var g = mk(); print g();
CaptureProgram ==
    [name |-> "capture", n |-> 0, k |-> 0,
     fns |->
       ("script" :> Fn(0, 0,
            Flatten(<< I2("Closure", 1), I2("DefineGlobal", 0),
                       I2("GetGlobal", 3), I2("Call", 0), I2("DefineGlobal", 2),
                       I2("GetGlobal", 4), I2("Call", 0), I1("Print"),
                       I1("Nil"), I1("Return") >>),
            << StringV("mk"), FnConst("mk"), StringV("g"), StringV("mk"),
               StringV("g") >>))
       @@ ("mk" :> Fn(0, 0,
            Flatten(<< I2("Constant", 0), I2("Closure", 1), <<1, 1>>,
                       I2("Constant", 2), I2("SetLocal", 1), I1("Pop"),
                       I2("GetLocal", 2), I1("Return"),
                       I1("Nil"), I1("Return") >>),
            << IntV(1), FnConst("f"), IntV(2) >>))
       @@ ("f" :> Fn(0, 1,
            Flatten(<< I2("GetUpvalue", 0), I1("Return"),
                       I1("Nil"), I1("Return") >>),
            << >>))]

\* fun mk() { var g; { var x = 1; fun f() { return x; } x = 2; g = f; }
\*            return g; }
\* var h = mk(); print h();
BlockCaptureProgram ==
    [name |-> "blockcapture", n |-> 0, k |-> 0,
     fns |->
       ("script" :> Fn(0, 0,
            Flatten(<< I2("Closure", 1), I2("DefineGlobal", 0),
                       I2("GetGlobal", 3), I2("Call", 0), I2("DefineGlobal", 2),
                       I2("GetGlobal", 4), I2("Call", 0), I1("Print"),
                       I1("Nil"), I1("Return") >>),
            << StringV("mk"), FnConst("mk"), StringV("h"), StringV("mk"),
               StringV("h") >>))
       @@ ("mk" :> Fn(0, 0,
            Flatten(<< I1("Nil"),
                       I2("Constant", 0), I2("Closure", 1), <<1, 2>>,
                       I2("Constant", 2), I2("SetLocal", 2), I1("Pop"),
                       I2("GetLocal", 3), I2("SetLocal", 1), I1("Pop"),
                       I1("Pop"), I1("CloseUpvalue"),
                       I2("GetLocal", 1), I1("Return"),
                       I1("Nil"), I1("Return") >>),
            << IntV(1), FnConst("f"), IntV(2) >>))
       @@ ("f" :> Fn(0, 1,
            Flatten(<< I2("GetUpvalue", 0), I1("Return"),
                       I1("Nil"), I1("Return") >>),
            << >>))]

\* fun outer() { var x = 1; fun set() { x = 2; } fun get() { return x; }
\*               set(); print x; x = 3; print get(); }
\* outer();
OpenUpvalueProgram ==
    [name |-> "open", n |-> 0, k |-> 0,
     fns |->
       ("script" :> Fn(0, 0,
            Flatten(<< I2("Closure", 1), I2("DefineGlobal", 0),
                       I2("GetGlobal", 2), I2("Call", 0), I1("Pop"),
                       I1("Nil"), I1("Return") >>),
            << StringV("outer"), FnConst("outer"), StringV("outer") >>))
       @@ ("outer" :> Fn(0, 0,
            Flatten(<< I2("Constant", 0),
                       I2("Closure", 1), <<1, 1>>,
                       I2("Closure", 2), <<1, 1>>,
                       I2("GetLocal", 2), I2("Call", 0), I1("Pop"),
                       I2("GetLocal", 1), I1("Print"),
                       I2("Constant", 3), I2("SetLocal", 1), I1("Pop"),
                       I2("GetLocal", 3), I2("Call", 0), I1("Print"),
                       I1("Nil"), I1("Return") >>),
            << IntV(1), FnConst("set"), FnConst("get"), IntV(3) >>))
       @@ ("set" :> Fn(0, 1,
            Flatten(<< I2("Constant", 0), I2("SetUpvalue", 0), I1("Pop"),
                       I1("Nil"), I1("Return") >>),
            << IntV(2) >>))
       @@ ("get" :> Fn(0, 1,
            Flatten(<< I2("GetUpvalue", 0), I1("Return"),
                       I1("Nil"), I1("Return") >>),
            << >>))]

\* fun outer() { var a = 1; var b = 1; fun fa() { a = 5; }
\*               fun fb() { return b; } fa(); print fb(); }
\* outer();
TwoLocalsProgram ==
    [name |-> "twolocals", n |-> 0, k |-> 0,
     fns |->
       ("script" :> Fn(0, 0,
            Flatten(<< I2("Closure", 1), I2("DefineGlobal", 0),
                       I2("GetGlobal", 2), I2("Call", 0), I1("Pop"),
                       I1("Nil"), I1("Return") >>),
            << StringV("outer"), FnConst("outer"), StringV("outer") >>))
       @@ ("outer" :> Fn(0, 0,
            Flatten(<< I2("Constant", 0), I2("Constant", 1),
                       I2("Closure", 2), <<1, 1>>,
                       I2("Closure", 3), <<1, 2>>,
                       I2("GetLocal", 3), I2("Call", 0), I1("Pop"),
                       I2("GetLocal", 4), I2("Call", 0), I1("Print"),
                       I1("Nil"), I1("Return") >>),
            << IntV(1), IntV(1), FnConst("fa"), FnConst("fb") >>))
       @@ ("fa" :> Fn(0, 1,
            Flatten(<< I2("Constant", 0), I2("SetUpvalue", 0), I1("Pop"),
                       I1("Nil"), I1("Return") >>),
            << IntV(5) >>))
       @@ ("fb" :> Fn(0, 1,
            Flatten(<< I2("GetUpvalue", 0), I1("Return"),
                       I1("Nil"), I1("Return") >>),
            << >>))]

\* class A {} var a = A(); print a;
ClassNoInitProgram ==
    [name |-> "noinit", n |-> 0, k |-> 0,
     fns |->
       ("script" :> Fn(0, 0,
            Flatten(<< I2("Class", 0), I2("DefineGlobal", 0),
                       I2("GetGlobal", 1), I1("Pop"),
                       I2("GetGlobal", 3), I2("Call", 0), I2("DefineGlobal", 2),
                       I2("GetGlobal", 4), I1("Print"),
                       I1("Nil"), I1("Return") >>),
            << StringV("A"), StringV("A"), StringV("a"), StringV("A"),
               StringV("a") >>))]

\* class P { init(w1, .., wn) {} } var p = P(1, .., n); print p;
ClassInitProgram(n) ==
    [name |-> "init", n |-> n, k |-> 0,
     fns |->
       ("script" :> Fn(0, 0,
            Flatten(<< I2("Class", 0), I2("DefineGlobal", 0),
                       I2("GetGlobal", 1),
                       I2("Closure", 3), I2("Method", 2), I1("Pop"),
                       I2("GetGlobal", 5) >>)
              \o Flatten([i \in 1..n |-> I2("Constant", 5 + i)])
              \o Flatten(<< I2("Call", n), I2("DefineGlobal", 4),
                            I2("GetGlobal", 6 + n), I1("Print"),
                            I1("Nil"), I1("Return") >>),
            << StringV("P"), StringV("P"), StringV("init"), FnConst("init"),
               StringV("p"), StringV("P") >>
              \o [i \in 1..n |-> IntV(i)] \o << StringV("p") >>))
       @@ ("init" :> Fn(n, 0,
            Flatten(<< I2("GetLocal", 0), I1("Return") >>),
            << >>))]

\* class G { init() {} hi() { return this; } }
\* var g = G(); print g.hi(); var m = g.hi; print m();
\* g.who = 3; print 1 == g.who; print 1 == g.hi;
MethodsProgram ==
    [name |-> "methods", n |-> 0, k |-> 0,
     fns |->
       ("script" :> Fn(0, 0,
            Flatten(<< I2("Class", 0), I2("DefineGlobal", 0),
                       I2("GetGlobal", 1),
                       I2("Closure", 3), I2("Method", 2),
                       I2("Closure", 5), I2("Method", 4), I1("Pop"),
                       I2("GetGlobal", 7), I2("Call", 0), I2("DefineGlobal", 6),
                       I2("GetGlobal", 8), I3("Invoke", 9, 0), I1("Print"),
                       I2("GetGlobal", 11), I2("GetProperty", 12),
                       I2("DefineGlobal", 10),
                       I2("GetGlobal", 13), I2("Call", 0), I1("Print"),
                       I2("GetGlobal", 14), I2("Constant", 16),
                       I2("SetProperty", 15), I1("Pop"),
                       I2("Constant", 17), I2("GetGlobal", 18),
                       I2("GetProperty", 19), I1("Equal"), I1("Print"),
                       I2("Constant", 20), I2("GetGlobal", 21),
                       I2("GetProperty", 22), I1("Equal"), I1("Print"),
                       I1("Nil"), I1("Return") >>),
            << StringV("G"), StringV("G"), StringV("init"), FnConst("init"),
               StringV("hi"), FnConst("hi"), StringV("g"), StringV("G"),
               StringV("g"), StringV("hi"), StringV("m"), StringV("g"),
               StringV("hi"), StringV("m"), StringV("g"), StringV("who"),
               IntV(3), IntV(1), StringV("g"), StringV("who"), IntV(1),
               StringV("g"), StringV("hi") >>))
       @@ ("init" :> Fn(0, 0,
            Flatten(<< I2("GetLocal", 0), I1("Return") >>),
            << >>))
       @@ ("hi" :> Fn(0, 0,
            Flatten(<< I2("GetLocal", 0), I1("Return"),
                       I1("Nil"), I1("Return") >>),
            << >>))]

\* var a = 0; a = 1; print a;
GlobalAssignProgram ==
    [name |-> "assign", n |-> 0, k |-> 0,
     fns |->
       ("script" :> Fn(0, 0,
            Flatten(<< I2("Constant", 1), I2("DefineGlobal", 0),
                       I2("Constant", 3), I2("SetGlobal", 2), I1("Pop"),
                       I2("GetGlobal", 4), I1("Print"),
                       I1("Nil"), I1("Return") >>),
            << StringV("a"), IntV(0), StringV("a"), IntV(1), StringV("a") >>))]

\* fun f() { return -nil; } f()();
RuntimeErrorProgram ==
    [name |-> "negnil", n |-> 0, k |-> 0,
     fns |->
       ("script" :> Fn(0, 0,
            Flatten(<< I2("Closure", 1), I2("DefineGlobal", 0),
                       I2("GetGlobal", 2), I2("Call", 0), I2("Call", 0),
                       I1("Pop"), I1("Nil"), I1("Return") >>),
            << StringV("f"), FnConst("f"), StringV("f") >>))
       @@ ("f" :> Fn(0, 0,
            Flatten(<< I1("Nil"), I1("Negate"), I1("Return"),
                       I1("Nil"), I1("Return") >>),
            << >>))]

\* var i = 0; while (i < 3) { print i; i = i + 1; }
WhileCode ==
    LET c0 == Flatten(<< I2("Constant", 1), I2("DefineGlobal", 0) >>)
        loop_start == Len(c0)
        c1 == emit_jump(c0 \o Flatten(<< I2("GetGlobal", 2), I2("Constant", 3),
                                         I1("Less") >>), "JumpIfFalse")
        exit_jump == Len(c1) - 2
        c2 == c1 \o Flatten(<< I1("Pop"), I2("GetGlobal", 4), I1("Print"),
                               I2("GetGlobal", 6), I2("Constant", 7), I1("Add"),
                               I2("SetGlobal", 5), I1("Pop") >>)
        c3 == patch_jump(emit_loop(c2, loop_start), exit_jump)
    IN  c3 \o Flatten(<< I1("Pop"), I1("Nil"), I1("Return") >>)

WhileProgram ==
    [name |-> "while", n |-> 0, k |-> 0,
     fns |->
       ("script" :> Fn(0, 0, WhileCode,
            << StringV("i"), IntV(0), StringV("i"), IntV(3), StringV("i"),
               StringV("i"), StringV("i"), IntV(1) >>))]

\* print -1; print !true; print 1.5 + 2; print 7 / 2; print nil or 1;
\* print true and false; switch (1) { case 1: { print "a"; } }
MiscCode ==
    LET c0 == Flatten(<< I2("Constant", 0), I1("Negate"), I1("Print"),
                         I1("True"), I1("Not"), I1("Print"),
                         I2("Constant", 1), I2("Constant", 2), I1("Add"),
                         I1("Print"),
                         I2("Constant", 3), I2("Constant", 4), I1("Divide"),
                         I1("Print"), I1("Nil") >>)
        \* or
        c1 == emit_jump(c0, "JumpIfFalse")
        else_jump == Len(c1) - 2
        c2 == emit_jump(c1, "Jump")
        end_jump == Len(c2) - 2
        c3 == patch_jump(c2, else_jump) \o Flatten(<< I1("Pop"), I2("Constant", 5) >>)
        c4 == patch_jump(c3, end_jump) \o Flatten(<< I1("Print"), I1("True") >>)
        \* and
        c5 == emit_jump(c4, "JumpIfFalse")
        and_jump == Len(c5) - 2
        c6 == patch_jump(c5 \o Flatten(<< I1("Pop"), I1("False") >>), and_jump)
                  \o Flatten(<< I1("Print"),
        \* switch
                                I2("Constant", 6), I1("Duplicate"),
                                I2("Constant", 7), I1("Equal") >>)
        c7 == emit_jump(c6, "JumpIfFalse")
        skip_jump == Len(c7) - 2
        c8 == emit_jump(c7 \o Flatten(<< I1("Pop"), I2("Constant", 8), I1("Print") >>),
                        "Jump")
        break_jump == Len(c8) - 2
        c9 == patch_jump(c8, skip_jump) \o I1("Pop")
        c10 == patch_jump(c9, break_jump)
    IN  c10 \o Flatten(<< I1("Pop"), I1("Nil"), I1("Return") >>)

MiscProgram ==
    [name |-> "misc", n |-> 0, k |-> 0,
     fns |->
       ("script" :> Fn(0, 0, MiscCode,
            << IntV(1), FloatV(3, 2), IntV(2), IntV(7), IntV(2), IntV(1),
               IntV(1), IntV(1), StringV("a") >>))]

\* 1 + nil; print 2;
BinaryErrorProgram ==
    [name |-> "binerr", n |-> 0, k |-> 0,
     fns |->
       ("script" :> Fn(0, 0,
            Flatten(<< I2("Constant", 0), I1("Nil"), I1("Add"), I1("Pop"),
                       I2("Constant", 1), I1("Print"),
                       I1("Nil"), I1("Return") >>),
            << IntV(1), IntV(2) >>))]

\* throw(1); print sqrt(4); print 1 + sqrt(4);
NativesProgram ==
    [name |-> "natives", n |-> 0, k |-> 0,
     fns |->
       ("script" :> Fn(0, 0,
            Flatten(<< I2("GetGlobal", 0), I2("Constant", 1), I2("Call", 1),
                       I1("Pop"),
                       I2("GetGlobal", 2), I2("Constant", 3), I2("Call", 1),
                       I1("Print"),
                       I2("Constant", 4), I2("GetGlobal", 5), I2("Constant", 6),
                       I2("Call", 1), I1("Add"), I1("Print"),
                       I1("Nil"), I1("Return") >>),
            << StringV("throw"), IntV(1), StringV("sqrt"), IntV(4), IntV(1),
               StringV("sqrt"), IntV(4) >>))]

\* fun r() { r(); } r();
RecurseProgram ==
    [name |-> "recurse", n |-> 0, k |-> 0,
     fns |->
       ("script" :> Fn(0, 0,
            Flatten(<< I2("Closure", 1), I2("DefineGlobal", 0),
                       I2("GetGlobal", 2), I2("Call", 0), I1("Pop"),
                       I1("Nil"), I1("Return") >>),
            << StringV("r"), FnConst("r"), StringV("r") >>))
       @@ ("r" :> Fn(0, 0,
            Flatten(<< I2("GetGlobal", 0), I2("Call", 0), I1("Pop"),
                       I1("Nil"), I1("Return") >>),
            << StringV("r") >>))]

\* print !0; print !""; print 0 and 1; fun f() {} print f == f; print 1 == 1.0;
ValuesCode ==
    LET c0 == Flatten(<< I2("Constant", 0), I1("Not"), I1("Print"),
                         I2("Constant", 1), I1("Not"), I1("Print"),
                         I2("Constant", 2) >>)
        \* and
        c1 == emit_jump(c0, "JumpIfFalse")
        end_jump == Len(c1) - 2
        c2 == patch_jump(c1 \o Flatten(<< I1("Pop"), I2("Constant", 3) >>), end_jump)
    IN  c2 \o Flatten(<< I1("Print"),
                         I2("Closure", 5), I2("DefineGlobal", 4),
                         I2("GetGlobal", 6), I2("GetGlobal", 7), I1("Equal"),
                         I1("Print"),
                         I2("Constant", 8), I2("Constant", 9), I1("Equal"),
                         I1("Print"),
                         I1("Nil"), I1("Return") >>)

ValuesProgram ==
    [name |-> "values", n |-> 0, k |-> 0,
     fns |->
       ("script" :> Fn(0, 0, ValuesCode,
            << IntV(0), StringV(""), IntV(0), IntV(1), StringV("f"), FnConst("f"),
               StringV("f"), StringV("f"), IntV(1), FloatV(1, 1) >>))
       @@ ("f" :> Fn(0, 0, Flatten(<< I1("Nil"), I1("Return") >>), << >>))]

\* { var x = 1; { var x = 2; print x; } print x; }
ShadowProgram ==
    [name |-> "shadow", n |-> 0, k |-> 0,
     fns |->
       ("script" :> Fn(0, 0,
            Flatten(<< I2("Constant", 0), I2("Constant", 1),
                       I2("GetLocal", 2), I1("Print"), I1("Pop"),
                       I2("GetLocal", 1), I1("Print"), I1("Pop"),
                       I1("Nil"), I1("Return") >>),
            << IntV(1), IntV(2) >>))]

\* fun f() { var x = 1; { var x = 2; print x; } print x; }
\* f();
ShadowFunctionProgram ==
    [name |-> "shadowfn", n |-> 0, k |-> 0,
     fns |->
       ("script" :> Fn(0, 0,
            Flatten(<< I2("Closure", 1), I2("DefineGlobal", 0),
                       I2("GetGlobal", 2), I2("Call", 0), I1("Pop"),
                       I1("Nil"), I1("Return") >>),
            << StringV("f"), FnConst("f"), StringV("f") >>))
       @@ ("f" :> Fn(0, 0,
            Flatten(<< I2("Constant", 0), I2("Constant", 1),
                       I2("GetLocal", 2), I1("Print"), I1("Pop"),
                       I2("GetLocal", 1), I1("Print"),
                       I1("Nil"), I1("Return") >>),
            << IntV(1), IntV(2) >>))]

\* the left operands of the and / or programs, as the source writes them
AndOrOperands ==
    << Nil, BoolV(FALSE), BoolV(TRUE), IntV(0), IntV(7), StringV("s") >>

\* Compiler::literal / number / string: the code of a literal that is the
\* first of the chunk
operand_code(a) ==
    CASE a.t = "Nil" -> I1("Nil")
      [] a.t = "Bool" -> I1(IF a.v = 1 THEN "True" ELSE "False")
      [] OTHER -> I2("Constant", 0)

\* print a and 9;   (k = 0)        print a or 9;   (k = 1)
\* with a = AndOrOperands[n]
AndOrProgram(n, k) ==
    [name |-> "andor", n |-> n, k |-> k,
     fns |->
       ("script" :> Fn(0, 0,
            (IF k = 0
             THEN patch_jump(
                    emit_jump(operand_code(AndOrOperands[n]), "JumpIfFalse")
                      \o I1("Pop")
                      \o I2("Constant", Len(operand_code(AndOrOperands[n])) - 1),
                    Len(operand_code(AndOrOperands[n])) + 1)
             ELSE patch_jump(
                    patch_jump(
                        emit_jump(emit_jump(operand_code(AndOrOperands[n]),
                                            "JumpIfFalse"), "Jump"),
                        Len(operand_code(AndOrOperands[n])) + 1)
                      \o I1("Pop")
                      \o I2("Constant", Len(operand_code(AndOrOperands[n])) - 1),
                    Len(operand_code(AndOrOperands[n])) + 4))
            \o Flatten(<< I1("Print"), I1("Nil"), I1("Return") >>),
            IF Len(operand_code(AndOrOperands[n])) = 2
            THEN << AndOrOperands[n], IntV(9) >> ELSE << IntV(9) >>))]

\* fun f(p1, .., pn) { print 1; }
\* f(1, .., k); print 2;
ArityProgram(n, k) ==
    [name |-> "arity", n |-> n, k |-> k,
     fns |->
       ("script" :> Fn(0, 0,
            Flatten(<< I2("Closure", 1), I2("DefineGlobal", 0),
                       I2("GetGlobal", 2) >>)
              \o Flatten([i \in 1..k |-> I2("Constant", 3 + i)])
              \o Flatten(<< I2("Call", k), I1("Pop"), I2("Constant", 3),
                            I1("Print"), I1("Nil"), I1("Return") >>),
            << StringV("f"), FnConst("f"), StringV("f"), IntV(2) >>
              \o [i \in 1..k |-> IntV(i)]))
       @@ ("f" :> Fn(n, 0,
            Flatten(<< I2("Constant", 0), I1("Print"),
                       I1("Nil"), I1("Return") >>),
            << IntV(1) >>))]

\* class P { init() {} } var p = P(); print p.init();
InitInvokeProgram ==
    [name |-> "initinvoke", n |-> 0, k |-> 0,
     fns |->
       ("script" :> Fn(0, 0,
            Flatten(<< I2("Class", 0), I2("DefineGlobal", 0),
                       I2("GetGlobal", 1),
                       I2("Closure", 3), I2("Method", 2), I1("Pop"),
                       I2("GetGlobal", 5), I2("Call", 0), I2("DefineGlobal", 4),
                       I2("GetGlobal", 6), I3("Invoke", 7, 0), I1("Print"),
                       I1("Nil"), I1("Return") >>),
            << StringV("P"), StringV("P"), StringV("init"), FnConst("init"),
               StringV("p"), StringV("P"), StringV("p"), StringV("init") >>))
       @@ ("init" :> Fn(0, 0,
            Flatten(<< I2("GetLocal", 0), I1("Return") >>),
            << >>))]

\* k = 0:  var a = 0; print b; print a;
\* k = 1:  var a = 0; b = 1; print a;
UndefinedGlobalProgram(k) ==
    [name |-> "undefined", n |-> 0, k |-> k,
     fns |->
       ("script" :> Fn(0, 0,
            Flatten(<< I2("Constant", 1), I2("DefineGlobal", 0) >>)
              \o (IF k = 0 THEN Flatten(<< I2("GetGlobal", 2), I1("Print") >>)
                  ELSE Flatten(<< I2("Constant", 4), I2("SetGlobal", 2),
                                  I1("Pop") >>))
              \o Flatten(<< I2("GetGlobal", 3), I1("Print"),
                            I1("Nil"), I1("Return") >>),
            << StringV("a"), IntV(0), StringV("b"), StringV("a"), IntV(1) >>))]

\* fun f() { switch (n) { case 1: { var a = 5; print a; } } print 7; }
\* f();
\* The block of the case is compiled by block() in the scope of the function
\* body, so a is local 1 of f.
SwitchCode ==
    LET c0 == Flatten(<< I2("Constant", 0), I1("Duplicate"), I2("Constant", 1),
                         I1("Equal") >>)
        c1 == emit_jump(c0, "JumpIfFalse")
        jump == Len(c1) - 2
        c2 == emit_jump(c1 \o Flatten(<< I1("Pop"), I2("Constant", 2),
                                         I2("GetLocal", 1), I1("Print") >>),
                        "Jump")
        breaks_jump == Len(c2) - 2
        c3 == patch_jump(c2, jump) \o I1("Pop")
    IN  patch_jump(c3, breaks_jump)
          \o Flatten(<< I1("Pop"), I2("Constant", 3), I1("Print"),
                        I1("Nil"), I1("Return") >>)

SwitchProgram(n) ==
    [name |-> "switch", n |-> n, k |-> 0,
     fns |->
       ("script" :> Fn(0, 0,
            Flatten(<< I2("Closure", 1), I2("DefineGlobal", 0),
                       I2("GetGlobal", 2), I2("Call", 0), I1("Pop"),
                       I1("Nil"), I1("Return") >>),
            << StringV("f"), FnConst("f"), StringV("f") >>))
       @@ ("f" :> Fn(0, 0, SwitchCode,
                     << IntV(n), IntV(1), IntV(5), IntV(7) >>))]

\* fun f() { for (var i = 0; i < n; i = i + 1) print i; print 9; }
\* f();
\* offsets in f:  0 initializer, 2 condition, 7 JumpIfFalse, 11 Jump,
\* 14 increment, 22 Loop, 25 body, 28 Loop, 31 Pop, 32 Pop of i, 33 print 9
ForCode ==
    LET c0 == Flatten(<< I2("Constant", 0) >>)
        loop_start == Len(c0)
        c1 == emit_jump(c0 \o Flatten(<< I2("GetLocal", 1), I2("Constant", 1),
                                         I1("Less") >>), "JumpIfFalse")
        exit_jump == Len(c1) - 2
        c2 == emit_jump(c1 \o I1("Pop"), "Jump")
        body_jump == Len(c2) - 2
        increment_start == Len(c2)
        c3 == emit_loop(c2 \o Flatten(<< I2("GetLocal", 1), I2("Constant", 2),
                                         I1("Add"), I2("SetLocal", 1),
                                         I1("Pop") >>), loop_start)
        c4 == patch_jump(c3, body_jump)
        c5 == emit_loop(c4 \o Flatten(<< I2("GetLocal", 1), I1("Print") >>),
                        increment_start)
    IN  patch_jump(c5, exit_jump)
          \o Flatten(<< I1("Pop"), I1("Pop"), I2("Constant", 3), I1("Print"),
                        I1("Nil"), I1("Return") >>)

\* k = 0: the source above.  k = 1: the same loop as a statement of the script,
\*        for (var i = 0; i < n; i = i + 1) print i; print 9;
\* whose chunk has the same bytes, i being local 1 there too.
ForProgram(n, k) ==
    [name |-> "for", n |-> n, k |-> k,
     fns |->
       IF k = 1
       THEN "script" :> Fn(0, 0, ForCode,
                           << IntV(0), IntV(n), IntV(1), IntV(9) >>)
       ELSE ("script" :> Fn(0, 0,
                Flatten(<< I2("Closure", 1), I2("DefineGlobal", 0),
                           I2("GetGlobal", 2), I2("Call", 0), I1("Pop"),
                           I1("Nil"), I1("Return") >>),
                << StringV("f"), FnConst("f"), StringV("f") >>))
            @@ ("f" :> Fn(0, 0, ForCode,
                          << IntV(0), IntV(n), IntV(1), IntV(9) >>))]

\* fun mk() { var x = 0; fun inc() { x = x + 1; return x; } return inc; }
\* k = 0:  var c1 = mk(); var c2 = mk(); print c1(); print c2(); print c1();
\* k = 1:  var c1 = mk(); print c1(); var c2 = mk(); print c2(); print c1();
TwoCountersProgram(k) ==
    [name |-> "counters", n |-> 0, k |-> k,
     fns |->
       [CounterProgram.fns EXCEPT !["script"] =
          IF k = 0
          THEN Fn(0, 0,
            Flatten(<< I2("Closure", 1), I2("DefineGlobal", 0),
                       I2("GetGlobal", 3), I2("Call", 0), I2("DefineGlobal", 2),
                       I2("GetGlobal", 5), I2("Call", 0), I2("DefineGlobal", 4),
                       I2("GetGlobal", 6), I2("Call", 0), I1("Print"),
                       I2("GetGlobal", 7), I2("Call", 0), I1("Print"),
                       I2("GetGlobal", 8), I2("Call", 0), I1("Print"),
                       I1("Nil"), I1("Return") >>),
            << StringV("mk"), FnConst("mk"), StringV("c1"), StringV("mk"),
               StringV("c2"), StringV("mk"), StringV("c1"), StringV("c2"),
               StringV("c1") >>)
          ELSE Fn(0, 0,
            Flatten(<< I2("Closure", 1), I2("DefineGlobal", 0),
                       I2("GetGlobal", 3), I2("Call", 0), I2("DefineGlobal", 2),
                       I2("GetGlobal", 4), I2("Call", 0), I1("Print"),
                       I2("GetGlobal", 6), I2("Call", 0), I2("DefineGlobal", 5),
                       I2("GetGlobal", 7), I2("Call", 0), I1("Print"),
                       I2("GetGlobal", 8), I2("Call", 0), I1("Print"),
                       I1("Nil"), I1("Return") >>),
            << StringV("mk"), FnConst("mk"), StringV("c1"), StringV("mk"),
               StringV("c1"), StringV("c2"), StringV("mk"), StringV("c2"),
               StringV("c1") >>)]]

\* The sources print 10 - 4 - 3;  print 10 - 4;  print 2 + 3 * 4;
\* print 2 * 3 - 4;  print 24 / 4 / 2;  print 1 - 2 + 3;
ExpressionSources ==
    << << Token("Print", 0), Token("Number", 10), Token("Minus", 0),
          Token("Number", 4), Token("Minus", 0), Token("Number", 3),
          Token("Semicolon", 0) >>,
       << Token("Print", 0), Token("Number", 10), Token("Minus", 0),
          Token("Number", 4), Token("Semicolon", 0) >>,
       << Token("Print", 0), Token("Number", 2), Token("Plus", 0),
          Token("Number", 3), Token("Star", 0), Token("Number", 4),
          Token("Semicolon", 0) >>,
       << Token("Print", 0), Token("Number", 2), Token("Star", 0),
          Token("Number", 3), Token("Minus", 0), Token("Number", 4),
          Token("Semicolon", 0) >>,
       << Token("Print", 0), Token("Number", 24), Token("Slash", 0),
          Token("Number", 4), Token("Slash", 0), Token("Number", 2),
          Token("Semicolon", 0) >>,
       << Token("Print", 0), Token("Number", 1), Token("Minus", 0),
          Token("Number", 2), Token("Plus", 0), Token("Number", 3),
          Token("Semicolon", 0) >> >>

\* the chunk that compile leaves for ExpressionSources[k]
ExpressionProgram(k) ==
    [name |-> "expression", n |-> 0, k |-> k,
     fns |-> "script" :> Fn(0, 0, compile_print(ExpressionSources[k]).code,
                            compile_print(ExpressionSources[k]).constants)]

MaxArgs == 2
MaxLocals == 1

Programs ==
    << CounterProgram, CaptureProgram, BlockCaptureProgram, OpenUpvalueProgram,
       TwoLocalsProgram, ClassNoInitProgram, MethodsProgram, GlobalAssignProgram,
       RuntimeErrorProgram, WhileProgram, MiscProgram, BinaryErrorProgram,
       NativesProgram, RecurseProgram, ValuesProgram, ShadowProgram,
       ShadowFunctionProgram >>
    \o [i \in 1..((MaxArgs + 1) * (MaxLocals + 1)) |->
            CallProgram((i - 1) \div (MaxLocals + 1), (i - 1) % (MaxLocals + 1))]
    \o [i \in 1..(MaxArgs + 1) |-> ClassInitProgram(i - 1)]
    \o [i \in 1..(2 * Len(AndOrOperands)) |->
            AndOrProgram((i + 1) \div 2, i % 2)]
    \o [i \in 1..((MaxArgs + 1) * (MaxArgs + 1)) |->
            ArityProgram((i - 1) \div (MaxArgs + 1), (i - 1) % (MaxArgs + 1))]
    \o << InitInvokeProgram, UndefinedGlobalProgram(0), UndefinedGlobalProgram(1) >>
    \o << SwitchProgram(1), SwitchProgram(2) >>
    \o << ForProgram(0, 0), ForProgram(2, 0), ForProgram(2, 1) >>
    \o << TwoCountersProgram(0), TwoCountersProgram(1) >>
    \o [k \in 1..Len(ExpressionSources) |-> ExpressionProgram(k)]

\* The Function a Function value names.
FunOf(f) == functions[f.v][f.s]

\* debug.rs: the bytes disassemble_instruction steps over at offset at of the
\* chunk of function, fns being the functions of its program
instruction_size(fns, function, at) ==
    IF OpCodeFrom(function.code[at + 1]) \in
          {"JumpIfFalse", "JumpIfTrue", "Jump", "Loop", "Invoke"} THEN 3
    ELSE IF OpCodeFrom(function.code[at + 1]) = "Closure"
    THEN 2 + 2 * fns[function.constants[function.code[at + 2] + 1].s].up_value_count
    ELSE IF OpCodeFrom(function.code[at + 1]) \in
          {"Constant", "DefineGlobal", "GetGlobal", "SetGlobal", "GetLocal",
           "SetLocal", "GetUpvalue", "SetUpvalue", "Call", "Class",
           "GetProperty", "SetProperty", "Method"} THEN 2
    ELSE 1

RECURSIVE disassemble(_, _, _)
\* debug.rs disassemble: the offsets at which an instruction starts, from at
\* on, and the offset at which the loop stops
disassemble(fns, function, at) ==
    IF at >= Len(function.code) THEN {at}
    ELSE {at} \cup disassemble(fns, function,
                               at + instruction_size(fns, function, at))

(***************************************************************************)
(* The machine: the VM's fields and the heap as one record, so that the    *)
(* methods of VM compose as operators.  ok is the bool a method returns.   *)
(***************************************************************************)
Cur ==
    [frames |-> frames, closures |-> closures, cells |-> cells,
     classes |-> classes, instances |-> instances, bounds |-> bounds,
     globals |-> globals, stack |-> stack, out |-> out, result |-> result,
     ok |-> TRUE]

TopF(m) == m.frames[Len(m.frames)]

Slots(m) == TopF(m).slots

WithSlots(m, s) == [m EXCEPT !.frames[Len(m.frames)].slots = s]

\* the Function of the current frame's closure
CurFun(m) == FunOf(m.closures[TopF(m).closure].function)

\* VM::push
push(m, v) == WithSlots(m, Append(Slots(m), v))

\* VM::pop, the popped Option dropped: None on an empty vector
pop(m) == IF Slots(m) = <<>> THEN m ELSE WithSlots(m, Front(Slots(m)))

\* VM::peek: Some exactly when len - 1 - distance does not underflow
CanPeek(m, distance) == Len(Slots(m)) >= distance + 1

peek(m, distance) == Slots(m)[Len(Slots(m)) - distance]

\* a Rust panic (unwrap of None, index out of bounds, overflow check)
Panic(m) == [m EXCEPT !.result = "Panic", !.ok = FALSE]

\* Vec::pop on VM.stack
StackPop(st) == IF st = <<>> THEN st ELSE Front(st)

\* VM::runtime_error
runtime_error(m) ==
    IF \E i \in 1..Len(m.frames) :
          LET f == m.frames[i]
          IN  f.ip - 1 \notin 0..(Len(FunOf(m.closures[f.closure].function).code) - 1)
    THEN Panic(m)
    ELSE LET st == Truncate(m.stack, Len(Slots(m)))
         IN  IF Len(m.frames) = 1
             THEN [m EXCEPT !.stack = StackPop(st)]
             ELSE LET fr == Front(m.frames)
                  IN  [m EXCEPT !.stack = st,
                                !.frames = [fr EXCEPT ![Len(fr)].ip = @ + 1]]

\* self.runtime_error(..); return false
Fail(m) == [runtime_error(m) EXCEPT !.ok = FALSE]

\* return InterpretResult::RuntimeError
Halt(m) == IF m.result = "Running" THEN [m EXCEPT !.result = "RuntimeError"] ELSE m

\* self.runtime_error(..) with the return forgotten: the loop of run goes on
RunErr_going_on(m) == runtime_error(m)

\* self.runtime_error(..); return InterpretResult::RuntimeError
RunErr(m) == Halt(runtime_error(m))

\* if !self.f(..) { return InterpretResult::RuntimeError }
HaltUnlessOk(m) == IF m.ok THEN m ELSE Halt(m)

\* VM::call without the comparison of arg_count with the arity
call_any_arity(m, closure, arg_count, is_init) ==
    LET s0 == Slots(m)
    IN  IF ~is_init /\ Len(s0) < arg_count THEN Panic(m)
        ELSE LET s1 == IF is_init THEN s0
                       ELSE InsertAt(s0, Len(s0) - arg_count, Nil)
             IN  IF Len(s1) < arg_count + 1 THEN Panic(m)
                 ELSE LET at == Len(s1) - arg_count - 1
                          m1 == WithSlots(m, SubSeq(s1, 1, at))
                      IN  [m1 EXCEPT !.frames =
                              Append(@, [closure |-> closure.v, ip |-> 0,
                                         slots |-> SubSeq(s1, at + 1, Len(s1))])]

\* VM::call
call(m, closure, arg_count, is_init) ==
    IF arg_count # FunOf(m.closures[closure.v].function).arity % 256
    THEN Fail(m)
    ELSE LET s0 == Slots(m)
         IN  IF ~is_init /\ Len(s0) < arg_count THEN Panic(m)
             ELSE LET s1 == IF is_init THEN s0
                            ELSE InsertAt(s0, Len(s0) - arg_count, Nil)
                  IN  IF Len(s1) < arg_count + 1 THEN Panic(m)
                      ELSE LET at == Len(s1) - arg_count - 1
                               m1 == WithSlots(m, SubSeq(s1, 1, at))
                           IN  [m1 EXCEPT !.frames =
                                   Append(@, [closure |-> closure.v, ip |-> 0,
                                              slots |-> SubSeq(s1, at + 1, Len(s1))])]

\* What the host gives a native: the clock, a line of input, whether a file opens.
Envs == {[clock |-> FloatV(c, 1), input |-> "line", open_ok |-> b] :
            c \in {17}, b \in BOOLEAN}

\* clock_native .. exit_native.  Two results are not values: Panic for
\* args[0] of an empty argument vector, Exit for std::process::exit.
NativeResult(m, name, args, env) ==
    IF name = "clock" THEN env.clock
    ELSE IF name = "input" THEN StringV(env.input)
    ELSE IF args = <<>> THEN Val("Panic", 0, 1, "")
    ELSE LET a == args[1]
         IN  CASE name = "sqrt" ->
                    IF IsNumber(a) THEN FSqrt(AsFloat(a))
                    ELSE RunTimeError("Sqrt argument must be a number")
               [] name = "throw" ->
                    RunTimeError(Display(a, m.closures, m.classes, m.instances, m.bounds))
               [] name = "open" ->
                    IF a.t # "String" THEN RunTimeError("Expected string")
                    ELSE IF env.open_ok THEN StringV("contents")
                    ELSE RunTimeError("Failed to open file '" \o a.s \o "'")
               [] name = "exit" ->
                    IF a.t = "Int" THEN Val("Exit", a.v, 1, "")
                    ELSE RunTimeError("Expected int")

\* VM::call_value, NativeFunction arm, with VM::native_call
call_native(m, function, arg_count, env) ==
    IF Len(Slots(m)) < arg_count THEN Panic(m)
    ELSE LET s0 == Slots(m)
             args == SubSeq(s0, Len(s0) - arg_count + 1, Len(s0))
             m1 == WithSlots(m, SubSeq(s0, 1, Len(s0) - arg_count))
             res == NativeResult(m1, function.s, args, env)
         IN  IF res.t = "Panic" THEN Panic(m1)
             ELSE IF res.t = "Exit" THEN [m1 EXCEPT !.result = "Exit"]
             ELSE LET n == Len(Slots(m1)) - arg_count
                  IN  IF n < 0 /\ overflowChecks THEN Panic(m1)
                      ELSE push(pop(WithSlots(m1,
                               IF n < 0 THEN Slots(m1) ELSE Truncate(Slots(m1), n))), res)

\* VM::call_value
call_value(m, callee, arg_count, env) ==
    CASE callee.t = "BoundMethod" ->
            LET bound_method == m.bounds[callee.v]
                s0 == Slots(m)
            IN  IF Len(s0) < arg_count THEN Panic(m)
                ELSE call(WithSlots(m, InsertAt(s0, Len(s0) - arg_count,
                                                bound_method.receiver)),
                          bound_method.method, arg_count, FALSE)
      [] callee.t = "Closure" ->
            LET s0 == Slots(m)
            IN  IF Len(s0) < arg_count THEN Panic(m)
                ELSE call(WithSlots(m, InsertAt(s0, Len(s0) - arg_count, Nil)),
                          callee, arg_count, FALSE)
      [] callee.t = "Class" ->
            LET id == Len(m.instances) + 1
                instance == InstanceV(id)
                m1 == [m EXCEPT !.stack = StackPop(@),
                                !.instances = Append(@, [class |-> callee.v,
                                                         fields |-> EmptyMap])]
                methods == m.classes[callee.v].methods
                s0 == Slots(m1)
            IN  IF MapHas(methods, "init")
                THEN IF Len(s0) < arg_count THEN Panic(m1)
                     ELSE LET r == call(WithSlots(m1, InsertAt(s0, Len(s0) - arg_count,
                                                               instance)),
                                        methods["init"], arg_count, TRUE)
                          IN  IF ~r.ok THEN r ELSE pop(push(r, instance))
                ELSE IF arg_count # 0 THEN Fail(m1)
                     ELSE pop(push(m1, instance))
      [] callee.t = "NativeFunction" -> call_native(m, callee, arg_count, env)
      [] OTHER -> Fail(m)

\* VM::capture_up_value: the cell and the machine after it
capture_up_value(m, local) ==
    LET c == TopF(m).closure
        ups == m.closures[c].up_values
        hit == {i \in 1..Len(ups) : ValueEq(m.cells[ups[i]].location, local)}
    IN  IF hit # {}
        THEN [m |-> m, cell |-> ups[CHOOSE i \in hit : \A j \in hit : i <= j]]
        ELSE LET id == Len(m.cells) + 1
             IN  [m |-> [m EXCEPT !.cells = Append(@, [location |-> local,
                                                       closed |-> FALSE]),
                                  !.closures[c].up_values = Append(@, id)],
                  cell |-> id]

\* VM::close_up_values, from the i-th upvalue (0-based) of the frame's closure on
RECURSIVE close_up_values(_, _)
close_up_values(m, i) ==
    LET ups == m.closures[TopF(m).closure].up_values
    IN  IF i >= Len(ups) THEN m
        ELSE IF ValueEq(m.cells[ups[i + 1]].location, Nil)
        THEN IF i >= Len(Slots(m)) THEN Panic(m)
             ELSE close_up_values(
                      [m EXCEPT !.cells[ups[i + 1]] =
                           [location |-> Slots(m)[i + 1], closed |-> TRUE]], i + 1)
        ELSE close_up_values(m, i + 1)

\* the loop of OpCode::Closure over the (is_local, index) pairs
RECURSIVE read_up_values(_, _, _)
read_up_values(m, ups, remaining) ==
    IF remaining = 0 THEN [m |-> m, ups |-> ups]
    ELSE LET ip == TopF(m).ip
             code == CurFun(m).code
         IN  IF ip + 2 > Len(code) THEN [m |-> Panic(m), ups |-> ups]
             ELSE LET is_local == code[ip + 1] = 1
                      index == code[ip + 2]
                      m1 == [m EXCEPT !.frames[Len(m.frames)].ip = ip + 2]
                  IN  IF is_local
                      THEN IF index >= Len(Slots(m1))
                           THEN [m |-> Panic(m1), ups |-> ups]
                           ELSE LET r == capture_up_value(m1, Slots(m1)[index + 1])
                                IN  read_up_values(r.m, Append(ups, r.cell),
                                                   remaining - 1)
                      ELSE LET encl == m1.closures[TopF(m1).closure].up_values
                           IN  IF index >= Len(encl)
                               THEN [m |-> Panic(m1), ups |-> ups]
                               ELSE read_up_values(m1, Append(ups, encl[index + 1]),
                                                   remaining - 1)

\* VM::binary_op
binary_op(m, op) ==
    IF Len(Slots(m)) < 2 THEN Panic(m)
    ELSE LET b == peek(m, 0)
             a == peek(m, 1)
             m1 == pop(pop(m))
             fa == AsFloat(a)
             fb == AsFloat(b)
         IN  IF op # "Equal" /\ a.t = "Int" /\ b.t = "Int"
             THEN CASE op = "Add" -> push(m1, IntV(a.v + b.v))
                    [] op = "Subtract" -> push(m1, IntV(a.v - b.v))
                    [] op = "Multiply" -> push(m1, IntV(a.v * b.v))
                    [] op = "Divide" -> IF b.v = 0 THEN Panic(m1)
                                        ELSE push(m1, IntV(IDiv(a.v, b.v)))
                    [] op = "Greater" -> push(m1, BoolV(a.v > b.v))
                    [] op = "Less" -> push(m1, BoolV(a.v < b.v))
             ELSE IF op # "Equal" /\ IsNumber(a) /\ IsNumber(b)
             THEN CASE op = "Add" -> push(m1, FAdd(fa, fb))
                    [] op = "Subtract" -> push(m1, FAdd(fa, FNeg(fb)))
                    [] op = "Multiply" -> push(m1, FMul(fa, fb))
                    [] op = "Divide" -> push(m1, FDiv(fa, fb))
                    [] op = "Greater" -> push(m1, BoolV(FLess(fb, fa)))
                    [] op = "Less" -> push(m1, BoolV(FLess(fa, fb)))
             ELSE IF op = "Equal" THEN push(m1, BoolV(ValueEq(a, b)))
             ELSE IF op = "Add" /\ a.t = "String" /\ b.t = "String"
             THEN push(m1, StringV(a.s \o b.s))
             ELSE runtime_error(m1)

\* VM::bind_method, called with the instance already popped
bind_method(m, value, name) ==
    LET methods == m.classes[m.instances[value.v].class].methods
    IN  IF MapHas(methods, name)
        THEN LET id == Len(m.bounds) + 1
                 m1 == [m EXCEPT !.bounds = Append(@, [receiver |-> value,
                                                      method |-> methods[name]])]
             IN  push(pop(m1), BoundMethodV(id))
        ELSE Fail(m)

\* VM::define_method
define_method(m, name) ==
    IF ~CanPeek(m, 1) THEN Panic(m)
    ELSE LET method == peek(m, 0)
             class == peek(m, 1)
         IN  IF class.t = "Class" /\ method.t = "Closure"
             THEN pop([m EXCEPT !.classes[class.v].methods = MapPut(@, name, method)])
             ELSE runtime_error(m)

\* VM::invoke_from_class: the bool of call is dropped
invoke_from_class(m, class, name, arg_count) ==
    LET methods == m.classes[class].methods
    IN  IF MapHas(methods, name)
        THEN LET r == call(m, methods[name], arg_count, FALSE)
             IN  IF r.result = "Panic" THEN r ELSE [r EXCEPT !.ok = TRUE]
        ELSE Fail(m)

\* VM::invoke
invoke(m, name, arg_count, env) ==
    IF ~CanPeek(m, arg_count) THEN Panic(m)
    ELSE LET receiver == peek(m, arg_count)
         IN  IF receiver.t = "Instance"
             THEN LET fields == m.instances[receiver.v].fields
                  IN  IF MapHas(fields, name)
                      THEN call_value([m EXCEPT !.stack = StackPop(@)],
                                      fields[name], arg_count, env)
                      ELSE invoke_from_class(m, m.instances[receiver.v].class,
                                             name, arg_count)
             ELSE Fail(m)

(***************************************************************************)
(* VM::new and VM::interpret.                                              *)
(***************************************************************************)
Natives == {"clock", "sqrt", "input", "throw", "open", "exit"}

Init ==
    /\ globals = [n \in Natives |-> NativeFunction(n)]
    /\ frames = <<>>
    /\ stack = <<>>
    /\ closures = <<>>
    /\ cells = <<>>
    /\ classes = <<>>
    /\ instances = <<>>
    /\ bounds = <<>>
    /\ functions = <<>>
    /\ out = <<>>
    /\ result = "Idle"
    /\ prog = 0
    /\ runs = 0
    /\ steps = 0
    /\ overflowChecks \in BOOLEAN
    /\ hcall = <<>>
    /\ source = <<>>
    /\ stderr = <<>>
    /\ compiled = <<>>
    /\ compiler = <<>>

\* interpret(source), source compiling to Programs[p]: the frames left by an
\* earlier interpret stay, the new frame has no slot.
Interpret(p) ==
    /\ result \in {"Idle", "Ok", "RuntimeError"}
    /\ runs < MaxInterprets
    /\ stack' = <<>>
    /\ functions' = Append(functions, Programs[p].fns)
    /\ closures' = Append(closures, [function |-> FunctionV(Len(functions) + 1,
                                                            "script"),
                                     up_values |-> <<>>])
    /\ frames' = Append(frames, [closure |-> Len(closures) + 1, ip |-> 0,
                                 slots |-> <<>>])
    /\ hcall' = Append(hcall, [kind |-> "script", callee |-> Nil, below |-> <<>>])
    /\ result' = "Running"
    /\ prog' = p
    /\ runs' = runs + 1
    /\ steps' = 0
    /\ UNCHANGED <<globals, cells, classes, instances, bounds, out, overflowChecks,
                   source, stderr, compiled, compiler>>

(***************************************************************************)
(* VM::run: one action per arm (or family of arms) of the dispatch loop.   *)
(* read_byte / read_short / read_constant are the reads at Ip below; an    *)
(* instruction whose operand bytes or constant are missing panics.         *)
(***************************************************************************)
Running == result = "Running" /\ steps < MaxSteps

Ip == TopF(Cur).ip

CodeNow == CurFun(Cur).code

ByteAt(i) == IF i >= 0 /\ i < Len(CodeNow) THEN CodeNow[i + 1] ELSE -1

OpNow == OpCodeFrom(ByteAt(Ip))

\* the machine after reading the n bytes of the instruction
Fetched(n) == [Cur EXCEPT !.frames[Len(frames)].ip = @ + n]

HasBytes(n) == Ip + n <= Len(CodeNow)

\* read_constant
HasConstant == HasBytes(2) /\ ByteAt(Ip + 1) < Len(CurFun(Cur).constants)

ConstantNow == CurFun(Cur).constants[ByteAt(Ip + 1) + 1]

\* constant.to_string()
NameNow == Display(ConstantNow, closures, classes, instances, bounds)

\* read_short
ShortNow == ByteAt(Ip + 1) * 256 + ByteAt(Ip + 2)

\* history: the callee of the Call or Invoke at Ip ("Invoke" for a receiver)
\* and the operands below it
CallBelow ==
    LET argc == IF OpNow = "Invoke" THEN ByteAt(Ip + 2) ELSE ByteAt(Ip + 1)
        s == Slots(Cur)
    IN  IF argc >= 0 /\ Len(s) >= argc + 1
        THEN [kind |-> IF OpNow = "Invoke" THEN "Invoke" ELSE s[Len(s) - argc].t,
              callee |-> s[Len(s) - argc],
              below |-> SubSeq(s, 1, Len(s) - argc - 1)]
        ELSE [kind |-> "", callee |-> Nil, below |-> <<>>]

Commit(m) ==
    /\ frames' = m.frames
    /\ closures' = m.closures
    /\ cells' = m.cells
    /\ classes' = m.classes
    /\ instances' = m.instances
    /\ bounds' = m.bounds
    /\ globals' = m.globals
    /\ stack' = m.stack
    /\ out' = m.out
    /\ result' = m.result
    /\ steps' = steps + 1
    /\ hcall' = IF Len(m.frames) > Len(frames) THEN Append(hcall, CallBelow)
                ELSE SubSeq(hcall, 1, Len(m.frames))
    /\ UNCHANGED <<functions, prog, runs, overflowChecks, source, stderr, compiled,
                   compiler>>

\* OpCode::from of a byte that is no opcode, or a read past the end of the code
StepBadFetch ==
    /\ Running
    /\ OpNow = "Unknown"
    /\ Commit(Panic(Cur))

StepReturn ==
    /\ Running
    /\ OpNow = "Return"
    /\ Commit(
        LET m0 == Fetched(1)
        IN  IF Slots(m0) = <<>> THEN RunErr(m0)
            ELSE LET res == peek(m0, 0)
                     m1 == pop(m0)
                     frame == TopF(m1)
                     fr == Front(m1.frames)
                 IN  IF fr = <<>>
                     THEN [m1 EXCEPT !.frames = fr, !.stack = StackPop(@),
                                     !.result = "Ok"]
                     ELSE LET n == Len(Last(fr).slots) - Len(frame.slots)
                              m2 == [m1 EXCEPT !.frames = fr]
                          IN  IF n < 0 /\ overflowChecks THEN Panic(m2)
                              ELSE push(WithSlots(m2,
                                       IF n < 0 THEN Slots(m2)
                                       ELSE Truncate(Slots(m2), n)), res))

StepConstant ==
    /\ Running
    /\ OpNow = "Constant"
    /\ Commit(IF ~HasConstant THEN Panic(Cur) ELSE push(Fetched(2), ConstantNow))

\* Nil, True, False
StepLiteral ==
    /\ Running
    /\ OpNow \in {"Nil", "True", "False"}
    /\ Commit(push(Fetched(1),
                   CASE OpNow = "Nil" -> Nil
                     [] OpNow = "True" -> BoolV(TRUE)
                     [] OpNow = "False" -> BoolV(FALSE)))

\* Negate, Not
StepUnary ==
    /\ Running
    /\ OpNow \in {"Negate", "Not"}
    /\ Commit(
        LET m0 == Fetched(1)
        IN  IF ~CanPeek(m0, 0) THEN Panic(m0)
            ELSE LET value == peek(m0, 0)
                     m1 == pop(m0)
                 IN  IF OpNow = "Not" THEN push(m1, BoolV(is_falsely(value)))
                     ELSE IF value.t = "Int" THEN push(m1, IntV(-value.v))
                     ELSE IF value.t = "Float" THEN push(m1, FNeg(value))
                     ELSE RunErr(m1))

\* Equal, Greater, Less, Add, Subtract, Multiply, Divide
StepBinary ==
    /\ Running
    /\ OpNow \in {"Equal", "Greater", "Less", "Add", "Subtract", "Multiply", "Divide"}
    /\ Commit(binary_op(Fetched(1), OpNow))

StepPrint ==
    /\ Running
    /\ OpNow = "Print"
    /\ Commit(
        LET m0 == Fetched(1)
        IN  IF ~CanPeek(m0, 0) THEN Panic(m0)
            ELSE [pop(m0) EXCEPT !.out =
                     Append(@, Display(peek(m0, 0), closures, classes, instances,
                                       bounds))])

StepPop ==
    /\ Running
    /\ OpNow = "Pop"
    /\ Commit(pop(Fetched(1)))

StepDefineGlobal ==
    /\ Running
    /\ OpNow = "DefineGlobal"
    /\ Commit(
        IF ~HasConstant THEN Panic(Cur)
        ELSE LET m0 == Fetched(2)
             IN  IF ~CanPeek(m0, 0) THEN Panic(m0)
                 ELSE [pop(m0) EXCEPT !.globals = MapPut(@, NameNow, peek(m0, 0))])

StepGetGlobal ==
    /\ Running
    /\ OpNow = "GetGlobal"
    /\ Commit(
        IF ~HasConstant THEN Panic(Cur)
        ELSE LET m0 == Fetched(2)
             IN  IF MapHas(globals, NameNow) THEN push(m0, globals[NameNow])
                 ELSE RunErr(m0))

StepSetGlobal ==
    /\ Running
    /\ OpNow = "SetGlobal"
    /\ Commit(
        IF ~HasConstant THEN Panic(Cur)
        ELSE LET m0 == Fetched(2)
             IN  IF MapHas(globals, NameNow)
                 THEN IF ~CanPeek(m0, 0) THEN Panic(m0)
                      ELSE [pop(m0) EXCEPT !.globals = MapPut(@, NameNow, peek(m0, 0))]
                 ELSE RunErr(m0))

StepGetLocal ==
    /\ Running
    /\ OpNow = "GetLocal"
    /\ Commit(
        IF ~HasBytes(2) THEN Panic(Cur)
        ELSE LET m0 == Fetched(2)
                 slot == ByteAt(Ip + 1)
             IN  IF slot >= Len(Slots(m0)) THEN Panic(m0)
                 ELSE push(m0, Slots(m0)[slot + 1]))

StepSetLocal ==
    /\ Running
    /\ OpNow = "SetLocal"
    /\ Commit(
        IF ~HasBytes(2) THEN Panic(Cur)
        ELSE LET m0 == Fetched(2)
                 slot == ByteAt(Ip + 1)
             IN  IF ~CanPeek(m0, 0) \/ slot >= Len(Slots(m0)) THEN Panic(m0)
                 ELSE WithSlots(m0, [Slots(m0) EXCEPT ![slot + 1] = peek(m0, 0)]))

StepGetUpvalue ==
    /\ Running
    /\ OpNow = "GetUpvalue"
    /\ Commit(
        IF ~HasBytes(2) THEN Panic(Cur)
        ELSE LET m0 == Fetched(2)
                 slot == ByteAt(Ip + 1)
                 ups == closures[TopF(m0).closure].up_values
             IN  IF slot >= Len(ups) THEN Panic(m0)
                 ELSE push(m0, cells[ups[slot + 1]].location))

StepSetUpvalue ==
    /\ Running
    /\ OpNow = "SetUpvalue"
    /\ Commit(
        IF ~HasBytes(2) THEN Panic(Cur)
        ELSE LET m0 == Fetched(2)
                 slot == ByteAt(Ip + 1)
                 ups == closures[TopF(m0).closure].up_values
             IN  IF ~CanPeek(m0, 0) \/ slot >= Len(ups) THEN Panic(m0)
                 ELSE [m0 EXCEPT !.cells[ups[slot + 1]].location = peek(m0, 0)])

StepCloseUpvalue ==
    /\ Running
    /\ OpNow = "CloseUpvalue"
    /\ Commit(
        LET m1 == close_up_values(Fetched(1), 0)
        IN  IF m1.result = "Panic" THEN m1 ELSE pop(m1))

\* JumpIfFalse, JumpIfTrue, Jump, Loop
StepJump ==
    /\ Running
    /\ OpNow \in {"JumpIfFalse", "JumpIfTrue", "Jump", "Loop"}
    /\ Commit(
        IF ~HasBytes(3) THEN Panic(Cur)
        ELSE LET m0 == Fetched(3)
                 offset == ShortNow
                 to(d) == [m0 EXCEPT !.frames[Len(frames)].ip = @ + d]
             IN  CASE OpNow = "Jump" -> to(offset)
                   [] OpNow = "Loop" ->
                        IF offset > Ip + 3 THEN Panic(m0) ELSE to(-offset)
                   [] OpNow = "JumpIfFalse" ->
                        IF ~CanPeek(m0, 0) THEN Panic(m0)
                        ELSE IF is_falsely(peek(m0, 0)) THEN to(offset) ELSE m0
                   [] OpNow = "JumpIfTrue" ->
                        IF ~CanPeek(m0, 0) THEN Panic(m0)
                        ELSE IF ~is_falsely(peek(m0, 0)) THEN to(offset) ELSE m0)

StepDuplicate ==
    /\ Running
    /\ OpNow = "Duplicate"
    /\ Commit(
        LET m0 == Fetched(1)
        IN  IF CanPeek(m0, 0) THEN push(m0, peek(m0, 0))
            ELSE IF overflowChecks THEN Panic(m0)
            ELSE RunErr(m0))

StepCall ==
    /\ Running
    /\ OpNow = "Call"
    /\ \E env \in Envs :
        Commit(
            IF ~HasBytes(2) THEN Panic(Cur)
            ELSE LET m0 == Fetched(2)
                     arg_count == ByteAt(Ip + 1)
                 IN  IF ~CanPeek(m0, arg_count) THEN Panic(m0)
                     ELSE HaltUnlessOk(call_value(m0, peek(m0, arg_count),
                                                  arg_count, env)))

StepClosure ==
    /\ Running
    /\ OpNow = "Closure"
    /\ Commit(
        IF ~HasConstant THEN Panic(Cur)
        ELSE IF ConstantNow.t # "Function" THEN Panic(Fetched(2))
        ELSE LET function == FunctionV(closures[TopF(Cur).closure].function.v,
                                       ConstantNow.s)
                 r == read_up_values(Fetched(2), <<>>, FunOf(function).up_value_count)
             IN  IF r.m.result = "Panic" THEN r.m
                 ELSE push([r.m EXCEPT !.closures =
                               Append(@, [function |-> function, up_values |-> r.ups])],
                           ClosureV(Len(r.m.closures) + 1)))

StepClass ==
    /\ Running
    /\ OpNow = "Class"
    /\ Commit(
        IF ~HasConstant THEN Panic(Cur)
        ELSE push([Fetched(2) EXCEPT !.classes =
                      Append(@, [name |-> NameNow, methods |-> EmptyMap])],
                  ClassV(Len(classes) + 1)))

StepGetProperty ==
    /\ Running
    /\ OpNow = "GetProperty"
    /\ Commit(
        IF ~HasConstant THEN Panic(Cur)
        ELSE LET m0 == Fetched(2)
             IN  IF ~CanPeek(m0, 0) THEN Panic(m0)
                 ELSE LET value == peek(m0, 0)
                          m1 == pop(m0)
                      IN  IF value.t = "Instance"
                          THEN LET fields == instances[value.v].fields
                               IN  IF MapHas(fields, NameNow)
                                   THEN push(m1, fields[NameNow])
                                   ELSE HaltUnlessOk(bind_method(m1, value, NameNow))
                          ELSE RunErr(m1))

StepSetProperty ==
    /\ Running
    /\ OpNow = "SetProperty"
    /\ Commit(
        IF ~HasConstant THEN Panic(Cur)
        ELSE LET m0 == Fetched(2)
             IN  IF ~CanPeek(m0, 1) THEN Panic(m0)
                 ELSE LET instance == peek(m0, 1)
                      IN  IF instance.t = "Instance"
                          THEN [m0 EXCEPT !.instances[instance.v].fields =
                                   MapPut(@, NameNow, peek(m0, 0))]
                          ELSE RunErr(m0))

StepMethod ==
    /\ Running
    /\ OpNow = "Method"
    /\ Commit(IF ~HasConstant THEN Panic(Cur) ELSE define_method(Fetched(2), NameNow))

StepInvoke ==
    /\ Running
    /\ OpNow = "Invoke"
    /\ \E env \in Envs :
        Commit(
            IF ~HasConstant \/ ~HasBytes(3) THEN Panic(Cur)
            ELSE HaltUnlessOk(invoke(Fetched(3), NameNow, ByteAt(Ip + 2), env)))

Next ==
    \/ \E p \in 1..Len(Programs) : Interpret(p)
    \/ StepBadFetch
    \/ StepReturn
    \/ StepConstant
    \/ StepLiteral
    \/ StepUnary
    \/ StepBinary
    \/ StepPrint
    \/ StepPop
    \/ StepDefineGlobal
    \/ StepGetGlobal
    \/ StepSetGlobal
    \/ StepGetLocal
    \/ StepSetLocal
    \/ StepGetUpvalue
    \/ StepSetUpvalue
    \/ StepCloseUpvalue
    \/ StepJump
    \/ StepDuplicate
    \/ StepCall
    \/ StepClosure
    \/ StepClass
    \/ StepGetProperty
    \/ StepSetProperty
    \/ StepMethod
    \/ StepInvoke

Spec == Init /\ [][Next]_vars

(***************************************************************************)
(* Compiler::compile (src/compiler.rs) as interpret calls it.  A source is *)
(* the sequence of token types its scan yields (src/scanner.rs is not part *)
(* of the sources at hand: scan_token hands out the tokens in order, an    *)
(* Error token where the text cannot be scanned, and Eof from the end of   *)
(* the text on).  The parser is followed for the statements made of the    *)
(* token types Class, Fun, Var, Print, Identifier, Number, Equal,          *)
(* Semicolon, LeftParen, RightParen, LeftBrace, RightBrace, Comma, Dot,    *)
(* This, Error and Eof, so every expression is parsed at                   *)
(* Precedence::Assignment.                                                 *)
(* Lexemes, the locals and the bytes written to the chunk are left out, so *)
(* the errors that depend on a name or on a count of 255 are not raised.   *)
(* scanner_state is a parking_lot RwLock, which is not reentrant: a read() *)
(* by the thread that holds the write guard never returns.  A compiler     *)
(* record with blocked = TRUE is that thread; no operator changes it.      *)
(***************************************************************************)
\* parser_rules.rs: RULES, for the token types above
get_rule(token_type) ==
    CASE token_type = "LeftParen" ->
            [prefix |-> "grouping", infix |-> "call", precedence |-> "Call"]
      [] token_type = "Identifier" ->
            [prefix |-> "variable", infix |-> "none", precedence |-> "None"]
      [] token_type = "Number" ->
            [prefix |-> "number", infix |-> "none", precedence |-> "None"]
      [] token_type \in {"Dot", "This"} ->
            [prefix |-> "none", infix |-> "none", precedence |-> "None"]
      [] OTHER ->
            [prefix |-> "none", infix |-> "none", precedence |-> "None"]

\* scanner_state.current = scan_token(): the next token, Eof at the end
scan_token(c) ==
    IF c.blocked THEN c
    ELSE [c EXCEPT !.current = IF c.toks = <<>> THEN "Eof" ELSE Head(c.toks),
                   !.toks = IF c.toks = <<>> THEN <<>> ELSE Tail(c.toks)]

RECURSIVE advance_loop(_)
\* the loop of advance after a scan_token, the write guard of scanner_state
\* held: the guard is dropped on return, the lexeme of an Error token is read
\* through scanner_state.read()
advance_loop(c) ==
    IF c.blocked THEN c
    ELSE IF c.current # "Error" THEN [c EXCEPT !.lock = "free"]
    ELSE advance_loop(scan_token(
            error_at_current(scanner_state_read(c), "lexeme")))

\* advance: previous = current, then the next token that is not an Error
\* token.  At Eof the scanner yields Eof again and no token is moved past,
\* nor is one by the first advance of compile.
advance(c) ==
    IF c.blocked THEN c
    ELSE advance_loop(scan_token(
            [c EXCEPT !.lock = "write", !.previous = c.current,
                      !.advanced = IF c.current \in {"Eof", "None"} THEN @
                                   ELSE @ + 1]))

consume(c, token_type, message) ==
    IF c.blocked THEN c
    ELSE IF c.current = token_type THEN advance(c)
    ELSE error_at_current(c, message)

\* The state after one turn of a loop that began in the state before: a turn
\* that has moved past no token would be repeated for ever, the loop is
\* marked stalled and left.
turn(before, after) ==
    IF after.blocked \/ after.advanced > before.advanced THEN after
    ELSE [after EXCEPT !.stalled = TRUE]

RECURSIVE synchronize_loop(_)
\* the while loop of synchronize
synchronize_loop(c) ==
    IF c.blocked \/ c.stalled \/ c.current = "Eof" THEN c
    ELSE IF c.previous = "Semicolon" THEN c
    ELSE IF c.current \in {"Class", "Fun", "Var", "For", "If", "While",
                           "Print", "Return"} THEN c
    ELSE synchronize_loop(turn(c, advance(c)))

synchronize(c) ==
    IF c.blocked THEN c
    ELSE synchronize_loop(
           [c EXCEPT !.panic_mode = FALSE,
                     !.events = Append(@, [op |-> "synchronize",
                                           printed |-> FALSE,
                                           had_error |-> c.had_error])])

RECURSIVE parse_precedence(_)
RECURSIVE infix_loop(_)
RECURSIVE arguments(_)
RECURSIVE parameter_loop(_)
RECURSIVE block_loop(_)
RECURSIVE method_loop(_)
RECURSIVE switch_loop(_)
RECURSIVE statement(_)
RECURSIVE declaration(_)

\* grouping, entered after the '('
grouping(c) ==
    consume(parse_precedence(c), "RightParen", "Expect ')' after expression.")

\* named_variable with can_assign, without the resolution of the name
named_variable(c) ==
    IF c.current = "Equal" THEN parse_precedence(advance(c)) ELSE c

\* the loop of argument_list, entered after the first argument
arguments(c) ==
    IF ~c.blocked /\ ~c.stalled /\ c.current = "Comma"
    THEN arguments(turn(c, parse_precedence(advance(c))))
    ELSE c

\* call: argument_list, entered after the '('
argument_list(c) ==
    consume(IF c.current # "RightParen" THEN arguments(parse_precedence(c))
            ELSE c,
            "RightParen", "Expect ')' after arguments.")

\* parse_precedence(Assignment) after the prefix rule: the infix rules, which
\* bind at least as tightly as an assignment
infix_loop(c) ==
    IF ~c.blocked /\ get_rule(c.current).precedence # "None"
    THEN infix_loop(argument_list(advance(c)))
    ELSE c

\* the end of parse_precedence(Assignment): an '=' left over
assignment_target(c) ==
    IF ~c.blocked /\ c.current = "Equal"
    THEN error(advance(c), "Invalid assignment target.")
    ELSE c

\* parse_precedence(Assignment) after its advance: the prefix rule of previous
prefix_rule(c) ==
    IF c.blocked THEN c
    ELSE CASE get_rule(c.previous).prefix = "none" ->
                error(c, "Expect expression.")
           [] get_rule(c.previous).prefix = "grouping" ->
                assignment_target(infix_loop(grouping(c)))
           [] get_rule(c.previous).prefix = "variable" ->
                assignment_target(infix_loop(named_variable(c)))
           [] OTHER -> assignment_target(infix_loop(c))

\* expression(): parse_precedence(Precedence::Assignment)
parse_precedence(c) == prefix_rule(advance(c))

\* the while loop of block without its test of Eof
block_loop_to_brace(c) ==
    IF c.blocked \/ c.stalled \/ c.current = "RightBrace" THEN c
    ELSE block_loop(turn(c, declaration(c)))

\* the while loop of block over the declarations
block_loop(c) ==
    IF c.blocked \/ c.stalled \/ c.current = "RightBrace" \/ c.current = "Eof"
    THEN c
    ELSE block_loop(turn(c, declaration(c)))

block(c) == consume(block_loop(c), "RightBrace", "Expect '}' after block.")

\* the while loop of switch_statement over the cases
switch_loop(c) ==
    IF c.blocked \/ c.stalled \/ c.current = "RightBrace" \/ c.current = "Eof"
    THEN c
    ELSE switch_loop(turn(c,
            block(consume(consume(
                     parse_precedence(
                        consume(c, "Case", "Expect 'case' after 'switch'.")),
                     "Colon", "Expect ':' after case expression."),
                  "LeftBrace", "Expect '{' before case body."))))

\* switch_statement, entered after 'switch'
switch_statement(c) ==
    consume(switch_loop(
               consume(consume(
                          parse_precedence(
                             consume(c, "LeftParen",
                                     "Expect '(' after 'switch'.")),
                          "RightParen", "Expect ')' after switch condition."),
                       "LeftBrace", "Expect '{' before switch cases.")),
            "RightBrace", "Expect '}' after switch cases.")

\* while_statement and if_statement up to the end of the first statement,
\* entered after the keyword
condition_and_statement(c, keyword) ==
    statement(consume(parse_precedence(
                         consume(c, "LeftParen",
                                 IF keyword = "While"
                                 THEN "Expect '(' after 'while'."
                                 ELSE "Expect '(' after 'if'.")),
                      "RightParen", "Expect ')' after condition."))

\* the else branch of if_statement, if any
else_statement(c) ==
    IF ~c.blocked /\ c.current = "Else" THEN statement(advance(c)) ELSE c

\* statement, with print_statement, if_statement, while_statement,
\* switch_statement and expression_statement
statement(c) ==
    IF c.current = "Print"
    THEN consume(parse_precedence(advance(c)), "Semicolon",
                 "Expect ';' after value.")
    ELSE IF c.current = "If"
    THEN else_statement(condition_and_statement(advance(c), "If"))
    ELSE IF c.current = "While"
    THEN condition_and_statement(advance(c), "While")
    ELSE IF c.current = "Switch" THEN switch_statement(advance(c))
    ELSE IF c.current = "LeftBrace" THEN block(advance(c))
    ELSE consume(parse_precedence(c), "Semicolon",
                 "Expect ';' after expression.")

\* the parameter loop of function, entered after a parameter name
parameter_loop(c) ==
    IF ~c.blocked /\ ~c.stalled /\ c.current = "Comma"
    THEN parameter_loop(turn(c, consume(advance(c), "Identifier",
                                        "Expect parameter name.")))
    ELSE c

\* function, entered after the '(': the parameters, if any
parameters(c) ==
    IF c.current # "RightParen"
    THEN parameter_loop(consume(c, "Identifier", "Expect parameter name."))
    ELSE c

\* function: the nested compiler shares scanner_state and error_state and
\* ends with its own end_compiler
function(c) ==
    end_compiler(block(
        consume(consume(parameters(
                    consume(c, "LeftParen", "Expect '(' after function name.")),
                    "RightParen", "Expect ')' after parameters."),
                "LeftBrace", "Expect '{' before function body.")))

\* the while loop of class_declaration over method()
method_loop(c) ==
    IF c.blocked \/ c.stalled \/ c.current = "RightBrace" \/ c.current = "Eof"
    THEN c
    ELSE method_loop(turn(c, function(consume(c, "Identifier",
                                              "Expect method name."))))

class_declaration(c) ==
    consume(method_loop(
                consume(consume(c, "Identifier", "Expect class name."),
                        "LeftBrace", "Expect '{' before class body.")),
            "RightBrace", "Expect '}' after class body.")

\* var_declaration after the name: the initializer, if any, and the ';'
var_initializer(c) ==
    consume(IF c.current = "Equal" THEN parse_precedence(advance(c)) ELSE c,
            "Semicolon", "Expect ';' after variable declaration.")

\* the end of declaration: synchronize in panic mode
declaration_end(c) ==
    IF ~c.blocked /\ c.panic_mode THEN synchronize(c) ELSE c

\* declaration, with fun_declaration and var_declaration
declaration(c) ==
    declaration_end(
        IF c.current = "Class" THEN class_declaration(advance(c))
        ELSE IF c.current = "Fun"
        THEN function(consume(advance(c), "Identifier",
                              "Expect function name."))
        ELSE IF c.current = "Var"
        THEN var_initializer(consume(advance(c), "Identifier",
                                     "Expect variable name."))
        ELSE statement(c))

RECURSIVE compile_loop(_)
\* the while loop of compile over the declarations
compile_loop(c) ==
    IF c.blocked \/ c.stalled \/ c.current = "Eof" THEN c
    ELSE compile_loop(turn(c, declaration(c)))

compile(c) == end_compiler(compile_loop(advance(c)))

(***************************************************************************)
(* The sources given to interpret: a few programs and every source that    *)
(* differs from one of them by one token replaced or one token left out.   *)
(***************************************************************************)
MaxCompiles == 1

\* print 1;
\* fun f() { print 1; }
\* class C { m() { print 1; } }
\* fun f() { fun g() { } }
\* var a = f(1, 1);
\* print 1; print 1;
\* print ; print 1;
\* a.b;
\* a.b = 1;
\* a.b(1);
\* class C { m() { print this; } }
\* switch (1) { case 1: { print 1; } }
\* while (1) { print 1; }
\* if (1) print 1; else print 1;
\* fun f(a, b) { }
BaseSources ==
    << << "Print", "Number", "Semicolon" >>,
       << "Fun", "Identifier", "LeftParen", "RightParen", "LeftBrace",
          "Print", "Number", "Semicolon", "RightBrace" >>,
       << "Class", "Identifier", "LeftBrace", "Identifier", "LeftParen",
          "RightParen", "LeftBrace", "Print", "Number", "Semicolon",
          "RightBrace", "RightBrace" >>,
       << "Fun", "Identifier", "LeftParen", "RightParen", "LeftBrace",
          "Fun", "Identifier", "LeftParen", "RightParen", "LeftBrace",
          "RightBrace", "RightBrace" >>,
       << "Var", "Identifier", "Equal", "Identifier", "LeftParen", "Number",
          "Comma", "Number", "RightParen", "Semicolon" >>,
       << "Print", "Number", "Semicolon", "Print", "Number", "Semicolon" >>,
       << "Print", "Semicolon", "Print", "Number", "Semicolon" >>,
       << "Identifier", "Dot", "Identifier", "Semicolon" >>,
       << "Identifier", "Dot", "Identifier", "Equal", "Number", "Semicolon" >>,
       << "Identifier", "Dot", "Identifier", "LeftParen", "Number",
          "RightParen", "Semicolon" >>,
       << "Class", "Identifier", "LeftBrace", "Identifier", "LeftParen",
          "RightParen", "LeftBrace", "Print", "This", "Semicolon",
          "RightBrace", "RightBrace" >>,
       << "Switch", "LeftParen", "Number", "RightParen", "LeftBrace",
          "Case", "Number", "Colon", "LeftBrace", "Print", "Number",
          "Semicolon", "RightBrace", "RightBrace" >>,
       << "While", "LeftParen", "Number", "RightParen", "LeftBrace",
          "Print", "Number", "Semicolon", "RightBrace" >>,
       << "If", "LeftParen", "Number", "RightParen", "Print", "Number",
          "Semicolon", "Else", "Print", "Number", "Semicolon" >>,
       << "Fun", "Identifier", "LeftParen", "Identifier", "Comma",
          "Identifier", "RightParen", "LeftBrace", "RightBrace" >> >>

Replacements == {"Error", "Semicolon", "RightBrace", "Equal"}

Sources ==
    {BaseSources[b] : b \in 1..Len(BaseSources)}
    \cup UNION {{[BaseSources[b] EXCEPT ![i] = t] :
                    i \in 1..Len(BaseSources[b]), t \in Replacements} :
                 b \in 1..Len(BaseSources)}
    \cup UNION {{SubSeq(BaseSources[b], 1, i - 1)
                    \o SubSeq(BaseSources[b], i + 1, Len(BaseSources[b])) :
                    i \in 1..Len(BaseSources[b])} :
                 b \in 1..Len(BaseSources)}

\* interpret(source): compile, then a frame for the script and run, or
\* CompileError.  A compile that blocks never returns: result is "Blocked"
\* and stays so.  The instructions of the chunk are not followed here.
InterpretSource(src) ==
    /\ result \in {"Idle", "CompileError"}
    /\ runs < MaxCompiles
    /\ LET c == compile(NewCompiler(src))
       IN  /\ source' = src
           /\ compiler' = c
           /\ stderr' = c.stderr
           /\ compiled' = c.compiled
           /\ result' = IF c.blocked THEN "Blocked"
                        ELSE IF Last(c.compiled) = "Some" THEN "Running"
                        ELSE "CompileError"
           /\ IF ~c.blocked /\ Last(c.compiled) = "Some"
              THEN /\ functions' = Append(functions,
                        "script" :> Fn(0, 0, Flatten(<< I1("Nil"), I1("Return") >>),
                                       << >>))
                   /\ closures' = Append(closures,
                        [function |-> FunctionV(Len(functions) + 1, "script"),
                         up_values |-> <<>>])
                   /\ frames' = Append(frames, [closure |-> Len(closures) + 1,
                                                ip |-> 0, slots |-> <<>>])
                   /\ hcall' = Append(hcall, [kind |-> "script", callee |-> Nil,
                                              below |-> <<>>])
              ELSE UNCHANGED <<functions, closures, frames, hcall>>
    /\ stack' = <<>>
    /\ runs' = runs + 1
    /\ steps' = 0
    /\ UNCHANGED <<globals, cells, classes, instances, bounds, out, prog,
                   overflowChecks>>

NextCompile == \E src \in Sources : InterpretSource(src)

CompileSpec == Init /\ [][NextCompile]_vars

(***************************************************************************)
(* The limits of one byte in the compiler: the constants of a chunk and    *)
(* the arguments of a call.  The compiler record also holds the constants  *)
(* and the code of its chunk, the u8 local arg_count of argument_list, the *)
(* u8 that make_constant returned, and whether the thread has panicked.    *)
(***************************************************************************)
\* the greatest number of statements or arguments of a source
MaxItems == 257

\* arg_count += 1 on a u8
increment_arg_count(c) ==
    IF c.panicked THEN c
    ELSE IF c.arg_count < U8_MAX THEN [c EXCEPT !.arg_count = @ + 1]
    ELSE IF overflowChecks THEN [c EXCEPT !.panicked = TRUE]
    ELSE [c EXCEPT !.arg_count = 0]

\* if arg_count == 255 { self.error(..) } of argument_list
arg_count_check(c) ==
    IF c.panicked \/ c.arg_count # U8_MAX THEN c
    ELSE error(c, "Cannot have more than 255 arguments.")

\* expression for an argument, which is nil or 1: literal or number
argument_expression(c, kind) ==
    IF kind = "Nil" THEN emit_byte(c, Op("Nil")) ELSE emit_constant(c, IntV(1))

\* one turn of the loop of argument_list
argument_turn(c, kind) ==
    increment_arg_count(arg_count_check(argument_expression(c, kind)))

\* Compiler::call after argument_list: emit_bytes(Call, arg_count)
emit_call(c) == emit_byte(emit_byte(c, Op("Call")), c.arg_count)

\* the end of a statement: consume(Semicolon), the byte op, then declaration's
\* synchronize in panic mode
statement_end(c, op) ==
    IF c.panicked THEN c
    ELSE declaration_end([emit_byte(c, Op(op)) EXCEPT !.previous = "Semicolon"])

(***************************************************************************)
(* Locals and upvalues of the compiler.  The record holds the locals with  *)
(* their depth, scope_depth, the upvalues and the u8 up_value_count of the *)
(* function, and the u8 that resolve_local and resolve_up_value returned.  *)
(* The compiler of the enclosing function is the record of the field       *)
(* enclosing.                                                              *)
(***************************************************************************)
\* usize::MAX, the depth resolve_local takes for a local not yet initialized
UNINITIALIZED == 2147483647

\* the number of variables each function of a source declares: add_local
\* takes u8::MAX locals, of which one is slot 0 and one the function declared
\* after the variables
VarsPerFunction == U8_MAX - 2

\* the name of the i-th variable of a source
Name(i) == "v" \o IntStr(i)

begin_scope(c) == [c EXCEPT !.scope_depth = @ + 1]

\* the locals the loop of end_scope leaves: it pops while the last local is
\* deeper than depth
kept_locals(locals, depth) ==
    CHOOSE n \in 0..Len(locals) :
        /\ n = 0 \/ locals[n].depth <= depth
        /\ \A j \in (n + 1)..Len(locals) : locals[j].depth > depth

\* end_scope: CloseUpvalue or Pop for each local popped, the last one first
end_scope(c) ==
    IF c.panicked THEN c
    ELSE [c EXCEPT
            !.scope_depth = @ - 1,
            !.locals = SubSeq(@, 1, kept_locals(c.locals, c.scope_depth - 1)),
            !.code = @ \o
               [i \in 1..(Len(c.locals)
                            - kept_locals(c.locals, c.scope_depth - 1)) |->
                   IF c.locals[Len(c.locals) + 1 - i].is_captured
                   THEN Op("CloseUpvalue") ELSE Op("Pop")]]

\* add_local, which records the local at the depth of the scope
add_local(c, name) ==
    IF c.panicked THEN c
    ELSE IF Len(c.locals) = U8_MAX
    THEN error(c, "Too many local variables in function.")
    ELSE [c EXCEPT !.locals = Append(@, [name |-> name,
                                         depth |-> c.scope_depth,
                                         is_captured |-> FALSE])]

\* declare_variable for the identifier name, which is the previous token
declare_variable(c, name) ==
    IF c.panicked \/ c.scope_depth = 0 THEN c
    ELSE add_local(
           IF \E i \in 1..Len(c.locals) :
                 /\ c.locals[i].name = name
                 /\ \A j \in i..Len(c.locals) :
                        ~(/\ c.locals[j].depth # UNINITIALIZED
                          /\ c.locals[j].depth < c.scope_depth)
           THEN error(c, "Already variable with this name in this scope.")
           ELSE c,
           name)

\* mark_initialized
mark_initialized(c) ==
    IF c.panicked \/ c.scope_depth = 0 THEN c
    ELSE [c EXCEPT !.locals[Len(c.locals)].depth = c.scope_depth]

\* the loop of resolve_local: the index of the last local of that name, or
\* u8::MAX
local_index(locals, name) ==
    IF \E i \in 1..Len(locals) : locals[i].name = name
    THEN (CHOOSE i \in 1..Len(locals) :
             /\ locals[i].name = name
             /\ \A j \in (i + 1)..Len(locals) : locals[j].name # name) - 1
    ELSE U8_MAX

\* resolve_local, c.local being the u8 it returns
resolve_local(c, name) ==
    IF c.panicked THEN c
    ELSE IF local_index(c.locals, name) = U8_MAX
    THEN [c EXCEPT !.local = U8_MAX]
    ELSE IF c.locals[local_index(c.locals, name) + 1].depth = UNINITIALIZED
    THEN [error(c, "Cannot read local variable in its own initializer.")
             EXCEPT !.local = local_index(c.locals, name)]
    ELSE [c EXCEPT !.local = local_index(c.locals, name)]

\* add_up_value, c.up_value being the u8 it returns: up_value_count += 1 is
\* on a u8, and so is len() as u8 - 1
add_up_value(c, index, is_local) ==
    IF c.panicked THEN c
    ELSE IF \E i \in 1..Len(c.up_values) :
               c.up_values[i] = [index |-> index, is_local |-> is_local]
    THEN [c EXCEPT !.up_value =
             ((CHOOSE i \in 1..Len(c.up_values) :
                 /\ c.up_values[i] = [index |-> index, is_local |-> is_local]
                 /\ \A j \in 1..(i - 1) :
                      c.up_values[j] # [index |-> index, is_local |-> is_local])
              - 1) % (U8_MAX + 1)]
    ELSE IF overflowChecks /\ (\/ c.up_value_count = U8_MAX
                               \/ (Len(c.up_values) + 1) % (U8_MAX + 1) = 0)
    THEN [c EXCEPT !.up_values = Append(@, [index |-> index,
                                            is_local |-> is_local]),
                   !.panicked = TRUE]
    ELSE [c EXCEPT !.up_values = Append(@, [index |-> index,
                                            is_local |-> is_local]),
                   !.up_value_count = (@ + 1) % (U8_MAX + 1),
                   !.up_value = (((Len(c.up_values) + 1) % (U8_MAX + 1)) - 1)
                                   % (U8_MAX + 1)]

\* resolve_up_value after enclosing.resolve_up_value has returned e.up_value
\* and left e
up_value_of_enclosing(c, e) ==
    IF e.panicked THEN [c EXCEPT !.enclosing = e, !.panicked = TRUE]
    ELSE IF e.up_value # U8_MAX
    THEN add_up_value([c EXCEPT !.enclosing = e], e.up_value, FALSE)
    ELSE [c EXCEPT !.enclosing = e, !.up_value = U8_MAX]

RECURSIVE resolve_up_value(_, _)
\* resolve_up_value, c.up_value being the u8 it returns.  The locals of the
\* enclosing compilers are all initialized, so that enclosing.resolve_local
\* is its loop.
resolve_up_value(c, name) ==
    IF c.panicked THEN c
    ELSE IF ~c.has_enclosing THEN [c EXCEPT !.up_value = U8_MAX]
    ELSE IF local_index(c.enclosing.locals, name) # U8_MAX
    THEN add_up_value(
           [c EXCEPT !.enclosing.locals[local_index(c.enclosing.locals, name) + 1]
                         .is_captured = TRUE],
           local_index(c.enclosing.locals, name), TRUE)
    ELSE up_value_of_enclosing(c, resolve_up_value(c.enclosing, name))

\* named_variable after resolve_up_value has returned: it is called a second
\* time for the operand
named_up_value(c, name) ==
    IF c.panicked THEN c
    ELSE IF c.up_value # U8_MAX
    THEN emit_bytes(resolve_up_value(c, name), "GetUpvalue",
                    resolve_up_value(c, name).up_value)
    ELSE emit_with_constant(make_constant(c, StringV(name)), "GetGlobal")

\* named_variable after resolve_local has returned
named_local(c, name) ==
    IF c.panicked THEN c
    ELSE IF c.local # U8_MAX THEN emit_bytes(c, "GetLocal", c.local)
    ELSE named_up_value(resolve_up_value(c, name), name)

\* named_variable for the identifier name, read and not assigned
named_variable_of(c, name) == named_local(resolve_local(c, name), name)

\* var_declaration of var name = name; in a block: parse_variable, the
\* initializer, consume(Semicolon), define_variable, then declaration's
\* synchronize in panic mode
var_declaration(c, name) ==
    declaration_end(
      [mark_initialized(
         named_variable_of(
           declare_variable([c EXCEPT !.previous = "Identifier"], name), name))
       EXCEPT !.previous = "Semicolon"])

\* The compiler of a function that encloses the function compiled, after its
\* declarations var Name(from + 1); .. var Name(from + VarsPerFunction); and
\* the name of the function it encloses
EnclosingCompiler(from, inner) ==
    [locals |-> << [name |-> "", depth |-> 0, is_captured |-> FALSE] >>
                \o [i \in 1..VarsPerFunction |->
                      [name |-> Name(from + i), depth |-> 1,
                       is_captured |-> FALSE]]
                \o << [name |-> inner, depth |-> 1, is_captured |-> FALSE] >>,
     up_values |-> <<>>, up_value_count |-> 0, up_value |-> 0,
     panicked |-> FALSE, has_enclosing |-> TRUE]

\* function() after the block of the function: end_compiler, then Closure with
\* the constant of the function, the first of the enclosing chunk, and one
\* pair of bytes for each of compiler.up_values
function_end(c) ==
    IF c.panicked \/ Last(end_chunk_compiler(c).compiled) # "Some"
    THEN end_chunk_compiler(c)
    ELSE [end_chunk_compiler(c) EXCEPT !.closure =
            << Op("Closure"), 0 >>
            \o [k \in 1..(2 * Len(c.up_values)) |->
                  IF k % 2 = 1
                  THEN (IF c.up_values[(k + 1) \div 2].is_local THEN 1 ELSE 0)
                  ELSE c.up_values[k \div 2].index]]

\* What the compile in progress has left to the VM: a panic ends the process.
Compiling(c) == IF c.panicked THEN "Panic" ELSE "Compiling"

\* the tokens of fun f() { var v; .. var v; with VarsPerFunction declarations
FunctionHead ==
    << "Fun", "Identifier", "LeftParen", "RightParen", "LeftBrace" >>
    \o [i \in 1..(3 * VarsPerFunction) |->
          IF i % 3 = 1 THEN "Var" ELSE IF i % 3 = 2 THEN "Identifier"
          ELSE "Semicolon"]

\* interpret(source) of a new VM, the source being one of
\*   kind "Print":   print 1; .. print 1;
\*   kind "Nil":     f(nil, .., nil);
\*   kind "Number":  f(1, .., 1);
\*   kind "Var":     { var v1 = v1; .. var vn = vn; }
\*   kind "Capture": fun f1() { var v254; .. var v506;
\*                     fun f2() { var v1; .. var v253;
\*                       fun f3() { v1; .. vn; } } }
\* followed up to the first statement or, in a call, up to the '(' after the
\* callee: variable has emitted GetGlobal with the constant of the name.  In
\* kind "Capture" the compiler is the one of f3.
BeginItems(kind) ==
    /\ result = "Idle"
    /\ runs = 0
    /\ compiler' =
         [kind |-> kind, items |-> 0]
         @@ (IF kind = "Print" THEN NewChunkCompiler(<<>>)
             ELSE IF kind = "Var" THEN begin_scope(NewChunkCompiler(<<>>))
             ELSE IF kind = "Capture"
             THEN [has_enclosing |-> TRUE,
                   enclosing |->
                     [enclosing |->
                        [enclosing |->
                           [locals |-> NewChunkCompiler(<<>>).locals,
                            has_enclosing |-> FALSE, panicked |-> FALSE,
                            up_values |-> <<>>, up_value_count |-> 0,
                            up_value |-> 0]]
                        @@ EnclosingCompiler(VarsPerFunction, "f2")]
                     @@ EnclosingCompiler(0, "f3")]
                  @@ begin_scope(NewChunkCompiler(<<>>))
             ELSE emit_with_constant(
                    make_constant(NewChunkCompiler(<<>>), StringV("f")),
                    "GetGlobal"))
    /\ source' = IF kind = "Print" THEN <<>>
                 ELSE IF kind = "Var" THEN << "LeftBrace" >>
                 ELSE IF kind = "Capture"
                 THEN FunctionHead \o FunctionHead
                      \o << "Fun", "Identifier", "LeftParen", "RightParen",
                            "LeftBrace" >>
                 ELSE << "Identifier", "LeftParen" >>
    /\ result' = "Compiling"
    /\ runs' = 1
    /\ stack' = <<>>
    /\ steps' = 0
    /\ UNCHANGED <<globals, frames, closures, cells, classes, instances, bounds,
                   functions, out, prog, overflowChecks, hcall, stderr, compiled>>

\* one more statement print 1;
PrintItem ==
    /\ result = "Compiling"
    /\ compiler.kind = "Print"
    /\ compiler.items < MaxItems
    /\ compiler' = [statement_end(emit_constant(compiler, IntV(1)), "Print")
                       EXCEPT !.items = @ + 1]
    /\ source' = source \o << "Print", "Number", "Semicolon" >>
    /\ stderr' = compiler'.stderr
    /\ result' = Compiling(compiler')
    /\ UNCHANGED <<globals, frames, stack, closures, cells, classes, instances,
                   bounds, functions, out, prog, runs, steps, overflowChecks,
                   hcall, compiled>>

\* one more declaration var vn = vn; of the block
VarItem ==
    /\ result = "Compiling"
    /\ compiler.kind = "Var"
    /\ compiler.items < MaxItems
    /\ compiler' = [var_declaration(compiler, Name(compiler.items + 1))
                       EXCEPT !.items = @ + 1]
    /\ source' = source \o << "Var", "Identifier", "Equal", "Identifier",
                              "Semicolon" >>
    /\ stderr' = compiler'.stderr
    /\ result' = Compiling(compiler')
    /\ UNCHANGED <<globals, frames, stack, closures, cells, classes, instances,
                   bounds, functions, out, prog, runs, steps, overflowChecks,
                   hcall, compiled>>

\* one more statement vn; of the function f3
CaptureItem ==
    /\ result = "Compiling"
    /\ compiler.kind = "Capture"
    /\ compiler.items < MaxItems
    /\ compiler' =
         [statement_end(
            named_variable_of([compiler EXCEPT !.previous = "Identifier"],
                              Name(compiler.items + 1)), "Pop")
             EXCEPT !.items = @ + 1]
    /\ source' = source \o << "Identifier", "Semicolon" >>
    /\ stderr' = compiler'.stderr
    /\ result' = Compiling(compiler')
    /\ UNCHANGED <<globals, frames, stack, closures, cells, classes, instances,
                   bounds, functions, out, prog, runs, steps, overflowChecks,
                   hcall, compiled>>

\* one more argument of the call: one turn of the loop of argument_list
ArgumentItem ==
    /\ result = "Compiling"
    /\ compiler.kind \in {"Nil", "Number"}
    /\ compiler.items < MaxItems
    /\ compiler' = [argument_turn(compiler, compiler.kind) EXCEPT !.items = @ + 1]
    /\ source' = source \o (IF compiler.items = 0 THEN << compiler.kind >>
                            ELSE << "Comma", compiler.kind >>)
    /\ stderr' = compiler'.stderr
    /\ result' = Compiling(compiler')
    /\ UNCHANGED <<globals, frames, stack, closures, cells, classes, instances,
                   bounds, functions, out, prog, runs, steps, overflowChecks,
                   hcall, compiled>>

\* the rest of the source, ");" for a call and "}" for a block, and the end
\* of compile: the chunk is kept when the compile succeeds; its instructions
\* are not followed here.  In kind "Capture" the source is followed up to the
\* "}" of f3 and the Closure that function() emits for it.
EndItems ==
    /\ result = "Compiling"
    /\ compiler' =
         IF compiler.kind = "Capture" THEN function_end(compiler)
         ELSE end_chunk_compiler(
                IF compiler.kind = "Print" THEN compiler
                ELSE IF compiler.kind = "Var"
                THEN end_scope([compiler EXCEPT !.previous = "RightBrace"])
                ELSE statement_end(emit_call(compiler), "Pop"))
    /\ source' = source \o (IF compiler.kind = "Print" THEN <<>>
                            ELSE IF compiler.kind \in {"Var", "Capture"}
                            THEN << "RightBrace" >>
                            ELSE << "RightParen", "Semicolon" >>)
    /\ stderr' = compiler'.stderr
    /\ compiled' = compiler'.compiled
    /\ result' = IF Last(compiler'.compiled) # "Some" THEN "CompileError"
                 ELSE IF compiler.kind = "Capture" THEN "Compiled"
                 ELSE "Running"
    /\ IF Last(compiler'.compiled) = "Some" /\ compiler.kind # "Capture"
       THEN /\ functions' = Append(functions,
                 "script" :> Fn(0, 0, compiler'.code, compiler'.constants))
            /\ closures' = Append(closures,
                 [function |-> FunctionV(Len(functions) + 1, "script"),
                  up_values |-> <<>>])
            /\ frames' = Append(frames, [closure |-> Len(closures) + 1,
                                         ip |-> 0, slots |-> <<>>])
            /\ hcall' = Append(hcall, [kind |-> "script", callee |-> Nil,
                                       below |-> <<>>])
       ELSE UNCHANGED <<functions, closures, frames, hcall>>
    /\ UNCHANGED <<globals, stack, cells, classes, instances, bounds, out, prog,
                   runs, steps, overflowChecks>>

NextLimits ==
    \/ \E kind \in {"Print", "Nil", "Number", "Var", "Capture"} : BeginItems(kind)
    \/ PrintItem
    \/ VarItem
    \/ CaptureItem
    \/ ArgumentItem
    \/ EndItems

LimitsSpec == Init /\ [][NextLimits]_vars

(***************************************************************************)
(* The claims of the specification, stated over the model.                 *)
(***************************************************************************)

\* C1: when a frame started by Call on a Closure executes Return, the caller's
\* operands become exactly the values that were below the callee before the
\* call followed by the return value, whatever argc and the callee's locals.
C1_ReturnRestoresCallerStack ==
    [][(/\ Running
        /\ OpNow = "Return"
        /\ Len(frames) > 1
        /\ hcall[Len(frames)].kind = "Closure"
        /\ Slots(Cur) # <<>>)
       => /\ result' = "Running"
          /\ Len(frames') = Len(frames) - 1
          /\ frames'[Len(frames')].slots =
                 Append(hcall[Len(frames)].below, Last(Slots(Cur)))]_vars

\* C2: a closure returned from the function that declared x, called after that
\* function returned, yields the value last assigned to x (2 in both capture
\* programs), not the value x had when the closure was created.
C2_ClosureSeesLastAssignedValue ==
    (runs = 1 /\ Programs[prog].name \in {"capture", "blockcapture"} /\ out # <<>>)
        => out = <<"2">>

\* C3: while the enclosing frame is active a captured local and its cell are one
\* variable: outer prints 2 after set() wrote x through its upvalue, and get()
\* returns 3 after outer assigned x = 3.
C3_OpenUpvalueAliasesLocal ==
    (runs = 1 /\ Programs[prog].name = "open")
        => (Len(out) <= 2 /\ \A i \in 1..Len(out) : out[i] = <<"2", "3">>[i])

\* C4: closures capturing two different locals of one frame get two different
\* cells, also when the locals hold equal values: fa and fb never share a cell
\* and fb() still yields 1 after fa() wrote 5 to a.
C4_DistinctLocalsDistinctCells ==
    (runs = 1 /\ Programs[prog].name = "twolocals")
        => /\ \A c1, c2 \in 1..Len(closures) :
                (closures[c1].function.s = "fa" /\ closures[c2].function.s = "fb")
                    => \A i \in 1..Len(closures[c1].up_values) :
                         \A j \in 1..Len(closures[c2].up_values) :
                            closures[c1].up_values[i] # closures[c2].up_values[j]
           /\ Len(out) <= 1
           /\ \A i \in 1..Len(out) : out[i] = "1"

\* C5: the counter program runs to completion with result Ok and prints 1, 2, 3:
\* it never ends otherwise, and what it has printed is a prefix of 1, 2, 3 that
\* is complete when it ends.
C5_CounterPrintsOneTwoThree ==
    (runs = 1 /\ Programs[prog].name = "counter")
        => /\ result \in {"Running", "Ok"}
           /\ Len(out) <= 3
           /\ \A i \in 1..Len(out) : out[i] = <<"1", "2", "3">>[i]
           /\ result = "Ok" => out = <<"1", "2", "3">>

C7_ClassCallLeavesInstance ==
    [][LET s == Slots(Cur)
           argc == ByteAt(Ip + 1)
           class == s[Len(s) - argc]
           noInit == /\ OpNow = "Call"
                     /\ HasBytes(2)
                     /\ argc = 0
                     /\ s # <<>>
                     /\ class.t = "Class"
                     /\ ~MapHas(classes[class.v].methods, "init")
           initReturns == /\ OpNow = "Return"
                          /\ Len(frames) > 1
                          /\ hcall[Len(frames)].kind = "Class"
                          /\ s # <<>>
           after == frames'[Len(frames')].slots
       IN  /\ (Running /\ noInit)
               => /\ result' = "Running"
                  /\ Len(after) = Len(s)
                  /\ Front(after) = Front(s)
                  /\ Last(after).t = "Instance"
                  /\ instances'[Last(after).v].class = class.v
           /\ (Running /\ initReturns)
               => /\ result' = "Running"
                  /\ Len(frames') = Len(frames) - 1
                  /\ Len(after) = Len(hcall[Len(frames)].below) + 1
                  /\ Front(after) = hcall[Len(frames)].below
                  /\ Last(after).t = "Instance"
                  /\ instances'[Last(after).v].class = hcall[Len(frames)].callee.v]_vars

C10_SetGlobalKeepsOperand ==
    [][(/\ Running
        /\ OpNow = "SetGlobal"
        /\ HasConstant
        /\ MapHas(globals, NameNow)
        /\ Slots(Cur) # <<>>)
       => /\ result' = "Running"
          /\ globals'[NameNow] = Last(Slots(Cur))
          /\ frames'[Len(frames')].slots = Slots(Cur)]_vars

\* C11: Add, Subtract, Multiply, Divide, Greater or Less on operands that are
\* neither two numbers nor (for Add) two strings makes interpret return
\* RuntimeError: the run is over after that instruction.
C11_BinaryTypeErrorStopsRun ==
    [][LET s == Slots(Cur)
           a == s[Len(s) - 1]
           b == s[Len(s)]
       IN  (/\ Running
            /\ OpNow \in {"Add", "Subtract", "Multiply", "Divide", "Greater", "Less"}
            /\ Len(s) >= 2
            /\ ~(IsNumber(a) /\ IsNumber(b))
            /\ ~(OpNow = "Add" /\ a.t = "String" /\ b.t = "String"))
           => result' = "RuntimeError"]_vars

C13_NativeErrorStopsRun ==
    [][LET s == Slots(Cur)
           argc == ByteAt(Ip + 1)
           callee == s[Len(s) - argc]
       IN  (/\ Running
            /\ OpNow = "Call"
            /\ HasBytes(2)
            /\ argc = 1
            /\ Len(s) >= 2
            /\ callee.t = "NativeFunction"
            /\ \/ callee.s = "throw"
               \/ callee.s = "sqrt" /\ ~IsNumber(Last(s)))
           => /\ result' = "RuntimeError"
              /\ \A i \in 1..Len(frames') : \A j \in 1..Len(frames'[i].slots) :
                    frames'[i].slots[j].t # "RunTimeError"]_vars

\* C14: Call of a NativeFunction with argc arguments that yields a value
\* replaces exactly the callee and the arguments by that value: the operands
\* below the callee stay and the depth decreases by argc.
C14_NativeCallReplacesCalleeAndArgs ==
    [][LET s == Slots(Cur)
           argc == ByteAt(Ip + 1)
           after == frames'[Len(frames')].slots
       IN  (/\ Running
            /\ OpNow = "Call"
            /\ HasBytes(2)
            /\ Len(s) > argc
            /\ s[Len(s) - argc].t = "NativeFunction"
            /\ result' = "Running")
           => /\ Len(frames') = Len(frames)
              /\ Len(after) = Len(s) - argc
              /\ Front(after) = SubSeq(s, 1, Len(s) - argc - 1)]_vars

\* C15: the number of active call frames never exceeds FRAMES_MAX = 64: a call
\* made with 64 frames active pushes no 65th frame.
C15_FramesNeverExceedMax ==
    Len(frames) <= FRAMES_MAX

\* C16: only Nil and Bool(false) are falsey: on any other value (Int 0, Float
\* 0.0 and the empty string included) Not pushes false, JumpIfFalse does not
\* jump and JumpIfTrue jumps.
C16_OnlyNilAndFalseAreFalsey ==
    [][LET s == Slots(Cur)
           ipAfter == frames'[Len(frames')].ip
       IN  (/\ Running
            /\ OpNow \in {"Not", "JumpIfFalse", "JumpIfTrue"}
            /\ OpNow = "Not" \/ HasBytes(3)
            /\ s # <<>>
            /\ Last(s) \notin {Nil, BoolV(FALSE)})
           => /\ result' = "Running"
              /\ OpNow = "Not" => Last(frames'[Len(frames')].slots) = BoolV(FALSE)
              /\ OpNow = "JumpIfFalse" => ipAfter = Ip + 3
              /\ OpNow = "JumpIfTrue" => ipAfter = Ip + 3 + ShortNow]_vars

\* C17: Equal pushes true exactly when both operands have the same variant and
\* equal components (Closure and Function values: equal function names, so a
\* closure equals itself) and false for different variants, Int against Float
\* included.
C17_EqualComparesSameVariant ==
    [][LET s == Slots(Cur)
           a == s[Len(s) - 1]
           b == s[Len(s)]
           equal == /\ a.t = b.t
                    /\ CASE a.t = "Closure" ->
                               closures[a.v].function.s = closures[b.v].function.s
                          [] a.t = "Function" -> a.s = b.s
                          [] a.t = "Float" -> ~IsNaN(a) /\ ~IsNaN(b) /\ a = b
                          [] OTHER -> a = b
       IN  (/\ Running
            /\ OpNow = "Equal"
            /\ Len(s) >= 2
            /\ \/ a.t # b.t
               \/ a.t \in {"Int", "Float", "Bool", "Nil", "String", "Function",
                           "Closure"})
           => /\ result' = "Running"
              /\ frames'[Len(frames')].slots =
                     Append(SubSeq(s, 1, Len(s) - 2), BoolV(equal))]_vars

(***************************************************************************)
(* C20: in any block, at the top level of the script as well as inside a   *)
(* function, a read of x inside an inner scope that shadows it yields the  *)
(* inner value and a read after the inner scope yields the outer value     *)
(* again: both 'shadow' and 'shadowfn' print 2 and then 1, so a first run  *)
(* of either that has stopped has ended Ok with exactly that output, and   *)
(* while it runs it has printed a prefix of it.                            *)
(***************************************************************************)
C20_ShadowedLocalReadsInnerThenOuter ==
    (runs = 1 /\ Programs[prog].name \in {"shadow", "shadowfn"}) =>
        /\ result \in {"Running", "Ok"}
        /\ Len(out) <= 2
        /\ out = SubSeq(<<"2", "1">>, 1, Len(out))
        /\ result = "Ok" => out = <<"2", "1">>

C19_ErrorTokenNeverBlocks ==
    (runs > 0 /\ \E i \in 1..Len(source) : source[i] = "Error") =>
        /\ result = "CompileError"
        /\ stderr # <<>>

(***************************************************************************)
(* C21: `e.name`, `e.name = v` and `e.name(args)` written after a complete *)
(* expression e are accepted by the compiler through the Pratt table (and  *)
(* compile to GetProperty, SetProperty and Invoke): the sources 'a.b;',    *)
(* 'a.b = 1;' and 'a.b(1);' compile without an error, so interpret goes on *)
(* to run them.                                                            *)
(***************************************************************************)
C21_PropertyAccessIsAccepted ==
    (runs > 0 /\ source \in
        { << "Identifier", "Dot", "Identifier", "Semicolon" >>,
          << "Identifier", "Dot", "Identifier", "Equal", "Number",
             "Semicolon" >>,
          << "Identifier", "Dot", "Identifier", "LeftParen", "Number",
             "RightParen", "Semicolon" >> }) =>
        /\ stderr = <<>>
        /\ result = "Running"

(***************************************************************************)
(* C28: `this` compiles without error when the compiler is inside a class  *)
(* body, where it is a read of the local named `this`: the source          *)
(* 'class C { m() { print this; } }' compiles without an error, so         *)
(* interpret goes on to run it.                                            *)
(***************************************************************************)
C28_ThisCompilesInsideClass ==
    (runs > 0 /\ source =
        << "Class", "Identifier", "LeftBrace", "Identifier", "LeftParen",
           "RightParen", "LeftBrace", "Print", "This", "Semicolon",
           "RightBrace", "RightBrace" >>) =>
        /\ stderr = <<>>
        /\ result = "Running"

C26_ErrorAt256thConstant ==
    result # "Idle" =>
        ((\E i \in 1..Len(stderr) : stderr[i] = "Too many constants in one chunk.")
            <=> Len(compiler.constants) >= 256)

\* C26 amended: the compile error "Too many constants in one chunk." is
\* reported when the 257th constant is added to a chunk, whose index 256 does
\* not fit in one byte, and the compile then fails; a chunk of at most 256
\* constants compiles without this error.
C26_ErrorAt257thConstant ==
    result # "Idle" =>
        /\ (\E i \in 1..Len(stderr) : stderr[i] = "Too many constants in one chunk.")
              <=> Len(compiler.constants) >= 257
        /\ Len(compiler.constants) >= 257 =>
              (compiler.had_error /\ result # "Running")
        /\ (compiler.kind = "Print" /\ compiler.items <= 256
                /\ result \notin {"Compiling"}) => result = "Running"

\* C26 witness: a source of 257 statements print 1; has been refused for its
\* 257th constant.
C26_257thConstantRefused ==
    /\ result = "CompileError" /\ compiler.kind = "Print"
    /\ Len(compiler.constants) = 257
    /\ stderr = << "Too many constants in one chunk." >>

\* C27: a call with 255 arguments compiles without error and emits Call with
\* the argument count 255; a call with 256 arguments or more is reported as
\* "Cannot have more than 255 arguments." and the compile goes on to fail as
\* for any compile error, without a panic.
C27_ArgumentLimit ==
    (result # "Idle" /\ compiler.kind # "Print") =>
        /\ (compiler.items = 255 /\ result # "Compiling") =>
              /\ result = "Running"
              /\ stderr = <<>>
              /\ compiler.code[Len(compiler.code) - 4] = Op("Call")
              /\ compiler.code[Len(compiler.code) - 3] = 255
        /\ compiler.items >= 256 =>
              /\ result \in {"Compiling", "CompileError"}
              /\ \E i \in 1..Len(stderr) :
                    stderr[i] = "Cannot have more than 255 arguments."

\* C29: after every instruction every active frame, the script frame
\* included, has at least its slot 0, and whenever GetLocal n or SetLocal n is
\* about to be executed slot n of the current frame exists.
C29_FramesHaveSlotZero ==
    (runs = 1 /\ result = "Running" /\ frames # <<>>) =>
        /\ steps >= 1 => \A i \in 1..Len(frames) : frames[i].slots # <<>>
        /\ (OpNow \in {"GetLocal", "SetLocal"} /\ HasBytes(2)) =>
              ByteAt(Ip + 1) < Len(Slots(Cur))

\* C30: in a run without runtime error, each time a statement has finished
\* the operand stack of the frame holds exactly slot 0 and one value per local
\* in scope, and no instruction pops an empty stack.  For
\* var a = 0; a = 1; print a;  the statements end at the offsets 4, 9 and 12
\* of the script, where no local is in scope, and the run ends Ok.
C30_StatementLeavesLocalsOnly ==
    (runs = 1 /\ Programs[prog].name = "assign") =>
        /\ result \in {"Running", "Ok"}
        /\ (result = "Running" /\ Ip \in {4, 9, 12}) => Len(Slots(Cur)) = 1
        /\ (result = "Running" /\ OpNow \in {"Pop", "Print", "DefineGlobal"}) =>
              Slots(Cur) # <<>>

\* C31: a switch statement leaves the operand stack at the depth it had
\* before the statement, whether a case matched or none did, also when the
\* case body declares a local inside a function, and such a local reads back
\* its own value.  In f of 'switch' the statement starts with slot 0 alone in
\* the frame and ends at offset 20; print a is the Print of offset 14 and a
\* was given the value 5.
C31_SwitchKeepsDepth ==
    (runs = 1 /\ Programs[prog].name = "switch" /\ result = "Running"
              /\ Len(frames) = 2) =>
        /\ Ip = 20 => Len(Slots(Cur)) = 1
        /\ Ip = 14 => (Slots(Cur) # <<>> /\ peek(Cur, 0) = IntV(5))

\* C32: a Jump, JumpIfFalse, JumpIfTrue or Loop that is executed leaves ip at
\* the start of an instruction of the chunk, or at its end, and, when the jump
\* is taken, at the offset its patch_jump or emit_loop was given: in f of
\* 'for' the JumpIfFalse of offset 7 goes to 31, the Jump of 11 to 25, the
\* Loop of 22 to 2 and the Loop of 28 to 14.
C32_JumpsLandOnTargets ==
    [][(/\ result = "Running" /\ frames # <<>>
        /\ OpNow \in {"Jump", "JumpIfFalse", "JumpIfTrue", "Loop"}
        /\ HasBytes(3)
        /\ steps' = steps + 1
        /\ result' = "Running")
       => /\ Len(frames') = Len(frames)
          /\ Ip' \in 0..Len(CodeNow)
          /\ Ip' \in disassemble(functions[closures[TopF(Cur).closure].function.v],
                                 CurFun(Cur), 0)
          /\ (runs = 1 /\ Programs[prog].name = "for" /\ Len(frames) = 2) =>
                Ip' \in (CASE Ip = 7 -> {10, 31}
                           [] Ip = 11 -> {25}
                           [] Ip = 22 -> {2}
                           [] OTHER -> {14})]_vars

\* C32 witness: in f of 'for' the Loop at the end of the body has been taken
\* to the increment a second time.
C32_LoopTakenToIncrement ==
    /\ runs = 1 /\ Programs[prog].name = "for" /\ result = "Running"
    /\ Len(frames) = 2 /\ Ip = 14 /\ out = << "0", "1" >>

\* C33: for (I; C; U) B performs I once, then C, B, U in this order, leaves
\* the loop the first time C is falsey without executing B or U again, and
\* leaves the stack at the depth it had before.  In the chunk of 'for', run
\* as the function f (k = 0) or as the script (k = 1): no step fails; the body
\* (25) is entered only from the Jump that follows a truthy condition, the
\* increment (14) only from the end of the body, the condition (2) only from
\* the initializer or the end of the increment, and the exit (31) only from a
\* falsey condition; after the loop (33) the frame is as deep as before it;
\* the output is 0 .. n - 1 and then 9.
C33_ForRunsConditionBodyIncrement ==
    [][(/\ runs = 1 /\ Programs[prog].name = "for" /\ result = "Running"
        /\ Len(frames) = 2 - Programs[prog].k
        /\ steps' = steps + 1)
       => /\ (result' = "Running" /\ Len(frames') = Len(frames))
             \/ (OpNow = "Return" /\ Ip = 37)
          /\ (result' = "Running" /\ Len(frames') = Len(frames)) =>
             /\ Ip' = 25 => (Ip = 11)
             /\ Ip' = 14 => (Ip = 28)
             /\ Ip' = 2 => (Ip \in {0, 22})
             /\ Ip' = 10 => (Ip = 7 /\ peek(Cur, 0) = BoolV(TRUE))
             /\ Ip' = 31 => (Ip = 7 /\ peek(Cur, 0) = BoolV(FALSE))
             /\ Ip = 0 => out = <<>>
             /\ Ip = 4 => peek(Cur, 0) = IntV(Len(out))
             /\ Ip = 6 => peek(Cur, 0) = IntV(Programs[prog].n)
             /\ Ip = 27 => Len(out) < Programs[prog].n
             /\ Ip' = 33 => (Len(Slots(Cur)') = 1 /\ Len(out) = Programs[prog].n)
          /\ OpNow = "Print" =>
                out' = Append(out, IF Ip = 27 THEN IntStr(Len(out)) ELSE "9")]_vars

\* C34: a block-scoped declaration whose initializer names the variable being
\* declared, var v1 = v1; in a block, is reported with "Cannot read local
\* variable in its own initializer."
C34_OwnInitializerReported ==
    (result # "Idle" /\ compiler.kind = "Var" /\ compiler.items >= 1)
        => \E i \in 1..Len(stderr) :
              stderr[i] = "Cannot read local variable in its own initializer."

\* C35: once error_at has printed an error, no further error is printed until
\* synchronize has cleared panic_mode, and had_error, once set, is still set
\* at every later call up to the end of compile, which then returns nothing.
C35_OneErrorUntilSynchronize ==
    (result \in {"CompileError", "Running"}) =>
        /\ \A i \in 1..Len(compiler.events) : \A j \in (i + 1)..Len(compiler.events) :
              (compiler.events[i].printed /\ compiler.events[j].printed)
                 => \E k \in (i + 1)..(j - 1) : compiler.events[k].op = "synchronize"
        /\ \A i \in 1..Len(compiler.events) : \A j \in i..Len(compiler.events) :
              compiler.events[i].printed => compiler.events[j].had_error
        /\ Len(stderr) = Cardinality({i \in 1..Len(compiler.events) :
                                        compiler.events[i].printed})
        /\ (stderr # <<>>) => (compiler.had_error /\ Last(compiled) = "None")

\* C35 witness: a compile in which error_at was called in panic mode and
\* printed nothing, and which printed a second error after synchronize.
C35_ErrorSuppressedThenReported ==
    /\ result = "CompileError"
    /\ Len(stderr) >= 2
    /\ \E i \in 1..Len(compiler.events) :
          /\ compiler.events[i].op = "error_at"
          /\ ~compiler.events[i].printed

\* C36: the Closure instruction emitted for a function is followed by as many
\* (is_local, index) pairs as the up_value_count of the function, and a
\* captured variable resolved again (named_variable resolves it twice) adds no
\* second entry: f3 has one upvalue for each variable it names.
C36_ClosurePairsMatchCount ==
    (result = "Compiled" /\ compiler.kind = "Capture") =>
        /\ Len(compiler.closure) = 2 + 2 * compiler.up_value_count
        /\ Len(compiler.up_values) = compiler.items

\* C37: a function that captures more than 256 distinct variables is rejected
\* with a compile error, and neither up_value_count nor the index that
\* add_up_value returns ever wraps: the count is the number of upvalues.
C37_TooManyUpvaluesRejected ==
    (result # "Idle" /\ compiler.kind = "Capture") =>
        /\ ~compiler.panicked
        /\ compiler.up_value_count = Len(compiler.up_values)
        /\ compiler.items > U8_MAX + 1 => stderr # <<>>

\* C38: the closures that two calls of mk return count apart from each other,
\* in either order of the calls: the two-counter programs print 1, 1, 2 and
\* nothing else.
C38_CountersAreIndependent ==
    (runs = 1 /\ Programs[prog].name = "counters")
        => /\ Len(out) <= 3
           /\ \A i \in 1..Len(out) : out[i] = <<"1", "1", "2">>[i]

\* C39: binary operators of equal precedence associate to the left: for
\* a - b - c the compiler emits a, b, Subtract, c, Subtract, and
\* print 10 - 4 - 3; prints 3.
C39_SubtractionIsLeftAssociative ==
    (runs = 1 /\ Programs[prog].name = "expression" /\ Programs[prog].k = 1
     /\ result = "Ok")
        => /\ out = << "3" >>
           /\ functions[1]["script"].code =
                 << Op("Constant"), 0, Op("Constant"), 1, Op("Subtract"),
                    Op("Constant"), 2, Op("Subtract"), Op("Print"),
                    Op("Nil"), Op("Return") >>

\* C40: compile returns for every source without an Error token: no loop of
\* the compiler (compile, block, class_declaration, switch_statement, the
\* parameters, the arguments, synchronize) makes a turn without moving past a
\* token, every call of declaration moves past one, and at the end every
\* token of the source has been moved past once and current is Eof.
C40_CompileTerminates ==
    (result # "Idle" /\ \A i \in 1..Len(source) : source[i] # "Error") =>
        /\ result \in {"Running", "CompileError"}
        /\ ~compiler.stalled
        /\ ~compiler.blocked
        /\ compiler.current = "Eof"
        /\ compiler.toks = <<>>
        /\ compiler.advanced = Len(source)

\* C40 witness: a switch statement with a token replaced or left out, whose
\* compile reported an error, synchronized, and returned at Eof.
C40_BrokenSwitchCompiled ==
    /\ result = "CompileError"
    /\ Len(source) >= 13
    /\ source[1] = "Switch"
    /\ \A i \in 1..Len(source) : source[i] # "Error"
    /\ \E i \in 1..Len(compiler.events) : compiler.events[i].op = "synchronize"
    /\ compiler.current = "Eof"
====
